---- MODULE Spec2Model ----
(***************************************************************************)
(* A model of the personal-finance reporting tool: the date-window filter  *)
(* (src/src/utils.py), the spending reports (src/src/reports.py), the      *)
(* investment and cashback services (src/src/services.py) and the same-day *)
(* stock price cache (src/src/utils.py).                                   *)
(*                                                                         *)
(* Conventions.  A datetime is a record [year, month, day, second] where   *)
(* second counts the seconds since midnight.  Money is an integer number   *)
(* of kopecks (hundredths), so that sums are exact; a stock price is an    *)
(* integer.  Text is a sequence of one-character strings.                  *)
(***************************************************************************)
EXTENDS Integers, Sequences, FiniteSets, TLC

VARIABLES
    reference,      \* get_date_range: the reference instant (start_date)
    windows,        \* get_date_range: period tag -> <<start, end>> returned
    transactions,   \* reports: the DataFrame rows, in row order
    report,         \* reports: the last report call and what it returned
    data,           \* services: the list of transaction dicts
    service,        \* services: the last service call and what it returned
    today,          \* price cache: the current calendar day
    user_stocks,    \* price cache: settings["user_stocks"]
    cache_file,     \* price cache: content of stock_cache.json
    stock_call,     \* price cache: the last get_stock_prices call
    transactions_df,\* main_loop: the loaded DataFrame, or None
    result_file,    \* main_loop: content of result.json
    reports_dir,    \* main_loop: the files of the directory reports/
    iteration,      \* main_loop: the last pass of the loop
    clock           \* main_loop: datetime.now(), seconds after 12:00:00

dateVars == <<reference, windows>>
reportVars == <<transactions, report>>
serviceVars == <<data, service>>
stockVars == <<today, user_stocks, cache_file, stock_call>>
cliVars == <<transactions_df, result_file, reports_dir, iteration, clock>>
vars == <<reference, windows, transactions, report, data, service,
          today, user_stocks, cache_file, stock_call,
          transactions_df, result_file, reports_dir, iteration, clock>>

\* The value of a variable that belongs to a part of the program a
\* specification does not exercise.
Idle == "idle"

\* main_loop is not running.
CliIdle ==
    /\ transactions_df = Idle /\ result_file = Idle /\ reports_dir = Idle
    /\ iteration = Idle /\ clock = Idle

(***************************************************************************)
(* Bounds                                                                  *)
(***************************************************************************)
\* Reference instants range over the days of NumYears years from FirstYear.
FirstYear == 2020
NumYears == 1
\* A transaction table holds at most MaxRows rows.
MaxRows == 3
\* The calendar days a run of the price cache spans.
NumDays == 2
\* The longest transaction list handed to a search.
MaxRecords == 2
\* The categories a table of the events page spans.
NumCategories == 9

(***************************************************************************)
(* The proleptic Gregorian calendar of datetime (the arithmetic behind     *)
(* weekday(), replace(), timedelta, DateOffset and strptime).              *)
(***************************************************************************)
IsLeap(year) == year % 4 = 0 /\ (year % 100 # 0 \/ year % 400 = 0)

DaysInMonth(year, month) ==
    IF month = 2 THEN (IF IsLeap(year) THEN 29 ELSE 28)
    ELSE IF month \in {4, 6, 9, 11} THEN 30 ELSE 31

DaysBeforeYear(year) ==
    LET y == year - 1 IN y * 365 + (y \div 4) - (y \div 100) + (y \div 400)

\* The days of a common year that precede each month.
DAYS_BEFORE_MONTH == <<0, 31, 59, 90, 120, 151, 181, 212, 243, 273, 304, 334>>

DaysBeforeMonth(year, month) ==
    DAYS_BEFORE_MONTH[month] + (IF month > 2 /\ IsLeap(year) THEN 1 ELSE 0)

\* datetime.toordinal(): 1 January of year 1 is day 1.
toordinal(dt) == DaysBeforeYear(dt.year) + DaysBeforeMonth(dt.year, dt.month) + dt.day

\* datetime.weekday() / Series.dt.dayofweek: Monday is 0, Sunday is 6.
weekday(dt) == (toordinal(dt) + 6) % 7

\* date.fromordinal(), the 400/100/4/1-year cycle decomposition.
fromordinal(ordinal) ==
    LET n0 == ordinal - 1
        n400 == n0 \div 146097
        r400 == n0 % 146097
        n100 == r400 \div 36524
        r100 == r400 % 36524
        n4 == r100 \div 1461
        r4 == r100 % 1461
        n1 == r4 \div 365
        n == r4 % 365
        year == n400 * 400 + 1 + n100 * 100 + n4 * 4 + n1
    IN  IF n1 = 4 \/ n100 = 4
        THEN [year |-> year - 1, month |-> 12, day |-> 31]
        ELSE LET guess == (n + 50) \div 32
                 before == DaysBeforeMonth(year, guess)
                 month == IF before > n THEN guess - 1 ELSE guess
             IN  [year |-> year, month |-> month,
                  day |-> n - DaysBeforeMonth(year, month) + 1]

\* dt - timedelta(days=k) and dt - pd.DateOffset(days=k): the date moves,
\* the time of day stays.
MinusDays(dt, k) ==
    LET d == fromordinal(toordinal(dt) - k)
    IN  [year |-> d.year, month |-> d.month, day |-> d.day, second |-> dt.second]

\* The order of instants: datetimes compare field by field.
Lt(a, b) ==
    \/ a.year < b.year
    \/ a.year = b.year /\ a.month < b.month
    \/ a.year = b.year /\ a.month = b.month /\ a.day < b.day
    \/ a.year = b.year /\ a.month = b.month /\ a.day = b.day /\ a.second < b.second

Leq(a, b) == ~Lt(b, a)

\* datetime.min
datetime_min == [year |-> 1, month |-> 1, day |-> 1, second |-> 0]

(***************************************************************************)
(* get_date_range (src/src/utils.py)                                       *)
(***************************************************************************)
Periods == {"D", "W", "M", "Y", "ALL", "INVALID_PERIOD"}

\* Times of day of a reference instant: midnight and 09:53:56.
TimesOfDay == {0, 9 * 3600 + 53 * 60 + 56}

Years == FirstYear .. (FirstYear + NumYears - 1)

RefDates ==
    { [year |-> y, month |-> m, day |-> d, second |-> s] :
        y \in Years, m \in 1..12, d \in 1..31, s \in TimesOfDay }

ValidDate(dt) == dt.day <= DaysInMonth(dt.year, dt.month)

\* A slip in the week branch: the offset is added instead of subtracted.
get_date_range_week_forward(start_date, period) ==
    IF period = "W"
    THEN <<MinusDays(start_date, 0 - weekday(start_date)), start_date>>
    ELSE IF period = "M" THEN <<[start_date EXCEPT !.day = 1], start_date>>
    ELSE IF period = "Y"
    THEN <<[start_date EXCEPT !.month = 1, !.day = 1], start_date>>
    ELSE IF period = "ALL" THEN <<datetime_min, start_date>>
    ELSE <<start_date, start_date>>

\* A slip in the fallback: an unrecognised tag is given the All window.
get_date_range_default_all(start_date, period) ==
    IF period = "W"
    THEN <<MinusDays(start_date, weekday(start_date)), start_date>>
    ELSE IF period = "M" THEN <<[start_date EXCEPT !.day = 1], start_date>>
    ELSE IF period = "Y"
    THEN <<[start_date EXCEPT !.month = 1, !.day = 1], start_date>>
    ELSE IF period = "D" THEN <<start_date, start_date>>
    ELSE <<datetime_min, start_date>>

get_date_range(start_date, period) ==
    LET start ==
            IF period = "W" THEN MinusDays(start_date, weekday(start_date))
            ELSE IF period = "M" THEN [start_date EXCEPT !.day = 1]
            ELSE IF period = "Y" THEN [start_date EXCEPT !.month = 1, !.day = 1]
            ELSE IF period = "ALL" THEN datetime_min
            ELSE start_date
    IN  <<start, start_date>>

NoWindows == [p \in {} |-> <<>>]

InitDates ==
    /\ reference \in {d \in RefDates : ValidDate(d)}
    /\ windows = NoWindows
    /\ transactions = Idle /\ report = Idle
    /\ data = Idle /\ service = Idle
    /\ today = Idle /\ user_stocks = Idle /\ cache_file = Idle /\ stock_call = Idle
    /\ CliIdle

\* One call get_date_range(reference, period); the caller keeps the window.
GetDateRange(period) ==
    /\ period \notin DOMAIN windows
    /\ windows' = [p \in DOMAIN windows \cup {period} |->
                     IF p = period THEN get_date_range(reference, period)
                     ELSE windows[p]]
    /\ UNCHANGED <<reference, reportVars, serviceVars, stockVars, cliVars>>

NextDates == \E period \in Periods : GetDateRange(period)

SpecDates == InitDates /\ [][NextDates]_vars

(***************************************************************************)
(* Claims about get_date_range                                             *)
(***************************************************************************)
WindowStart(p) == windows[p][1]
WindowEnd(p) == windows[p][2]

\* Window p lies inside window q.
Contained(p, q) ==
    /\ Leq(WindowStart(q), WindowStart(p))
    /\ Leq(WindowEnd(p), WindowEnd(q))

BothRequested(p, q) == {p, q} \subseteq DOMAIN windows

StartsBeforeEnd == \A p \in DOMAIN windows : Leq(WindowStart(p), WindowEnd(p))

\* The Monday of the reference's week lies in the reference's month / year.
MondayInMonth == weekday(reference) < reference.day
MondayInYear ==
    weekday(reference) < DaysBeforeMonth(reference.year, reference.month) + reference.day

\* C3 (as stated): for every reference instant each window returned by
\* get_date_range has start <= end, and the windows are nested: Day inside
\* Week, Week inside Month, Month inside Year, Year inside All.
C3_WindowsNestedChain ==
    /\ StartsBeforeEnd
    /\ BothRequested("D", "W") => Contained("D", "W")
    /\ BothRequested("W", "M") => Contained("W", "M")
    /\ BothRequested("M", "Y") => Contained("M", "Y")
    /\ BothRequested("Y", "ALL") => Contained("Y", "ALL")

\* C3 (amended): each window has start <= end; Day lies inside Week and
\* inside Month, Month inside Year, Week and Year inside All; Week lies
\* inside Month (inside Year) exactly when the Monday of the reference's
\* week falls in the reference's month (year).
C3_WindowsNestedAmended ==
    /\ StartsBeforeEnd
    /\ BothRequested("D", "W") => Contained("D", "W")
    /\ BothRequested("D", "M") => Contained("D", "M")
    /\ BothRequested("M", "Y") => Contained("M", "Y")
    /\ BothRequested("Y", "ALL") => Contained("Y", "ALL")
    /\ BothRequested("W", "ALL") => Contained("W", "ALL")
    /\ BothRequested("W", "M") => (Contained("W", "M") <=> MondayInMonth)
    /\ BothRequested("W", "Y") => (Contained("W", "Y") <=> MondayInYear)

\* C3 witness: all five windows were computed for a reference whose week
\* began in the previous month.
C3_Witness ==
    /\ {"D", "W", "M", "Y", "ALL"} \subseteq DOMAIN windows
    /\ ~MondayInMonth
    /\ ~Contained("W", "M")

SameDay(a, b) == a.year = b.year /\ a.month = b.month /\ a.day = b.day

RecognisedPeriods == {"D", "W", "M", "Y", "ALL"}

\* C23: get_date_range called with a period tag outside the recognised set
\* (e.g. 'INVALID_PERIOD') raises ValueError instead of returning a window:
\* no window is ever returned for such a tag.
C23_UnknownTagRaisesValueError ==
    \A p \in DOMAIN windows : p \in RecognisedPeriods

(***************************************************************************)
(* Text: str.lower()                                                       *)
(***************************************************************************)
\* Cyrillic letters are written in transliteration ("E", "d", "a" for the
\* letters of the category name of food); a letter of the Latin alphabet is
\* written "lat:I".  The tables pair each capital with its small letter.
UpperLetters == <<"E", "D", "A", "P", "I", "lat:I">>
LowerLetters == <<"e", "d", "a", "p", "i", "lat:i">>
Letters ==
    {UpperLetters[i] : i \in DOMAIN UpperLetters}
        \cup {LowerLetters[i] : i \in DOMAIN LowerLetters}

LowerChar(c) ==
    IF \E i \in DOMAIN UpperLetters : UpperLetters[i] = c
    THEN LowerLetters[CHOOSE i \in DOMAIN UpperLetters : UpperLetters[i] = c]
    ELSE c

\* str.lower(): every character is lowered, the length stays.
lower(text) == [i \in 1..Len(text) |-> LowerChar(text[i])]

\* A missing value of a DataFrame column (NaN) / a missing value (None);
\* neither is a text over the letters, nor a date.
NaN == <<"NaN">>
None == <<"None">>

\* A pandas Timestamp, the value DataFrame.to_dict("records") gives for a
\* cell of a datetime column: it is no text.
Timestamp(dt) == <<"Timestamp", dt>>
IsTimestamp(value) == Len(value) = 2 /\ value[1] = "Timestamp"

\* isinstance(value, str)
IsStr(value) == value \notin {None, NaN} /\ ~IsTimestamp(value)

(***************************************************************************)
(* The spending reports (src/src/reports.py)                               *)
(***************************************************************************)
At(y, m, d, hh, mm, ss) ==
    [year |-> y, month |-> m, day |-> d, second |-> hh * 3600 + mm * 60 + ss]

Row(date, status, amount, category) ==
    [date |-> date, status |-> status, amount |-> amount,
     category |-> category, description |-> "Kino"]

\* The rows a transaction table is drawn from; amounts are in kopecks.
\* Relative to the reference date 15.10.2020 the 90-day window starts on
\* 17.07.2020 00:00:00.
SampleRows ==
    { Row(At(2020, 9, 15, 10, 0, 0), "OK", -10000, <<"E", "d", "a">>),      \* Tuesday
      Row(At(2020, 9, 15, 18, 0, 0), "OK", -25050, <<"E", "D", "A">>),      \* same day
      Row(At(2020, 9, 15, 10, 0, 0), "FAILED", -30000, <<"E", "d", "a">>),  \* declined
      Row(At(2020, 9, 16, 10, 0, 0), "OK", 50000, <<"E", "d", "a">>),       \* income
      Row(At(2020, 9, 19, 10, 0, 0), "OK", -30000, <<"A", "d">>),           \* Saturday
      Row(At(2020, 9, 22, 9, 0, 0), "OK", -7000, NaN),                      \* Tuesday
      Row(At(2020, 7, 17, 0, 0, 0), "OK", -4000, <<"E", "d", "a">>),        \* window start
      Row(At(2020, 7, 16, 23, 59, 59), "OK", -6000, <<"E", "d", "a">>),     \* one second early
      Row(At(2020, 10, 15, 0, 0, 0), "OK", -8000, <<"E", "d", "a">>),       \* window end
      Row(At(2020, 10, 15, 10, 0, 0), "OK", -9000, <<"A", "d">>) }          \* later that day

RECURSIVE SeqsUpTo(_, _)
SeqsUpTo(S, n) ==
    IF n = 0 THEN {<<>>}
    ELSE LET shorter == SeqsUpTo(S, n - 1)
         IN  shorter \cup {Append(q, x) : q \in {t \in shorter : Len(t) = n - 1}, x \in S}

Tables == SeqsUpTo(SampleRows, MaxRows)

\* The category argument: the spellings of two category names.
CategoryArgs ==
    { <<"E", "d", "a">>, <<"e", "D", "a">>, <<"a", "D">> }

\* The date argument 'DD.MM.YYYY' as <<day, month, year>>, or None.
DateArgs == {None, <<15, 10, 2020>>, <<31, 2, 2020>>}

\* datetime.today() at the time of the call.
Nows == {At(2020, 10, 15, 12, 0, 0)}

\* datetime.strptime(date, "%d.%m.%Y"): midnight of a date of the calendar,
\* ValueError otherwise.
strptime_date_ok(date) ==
    /\ date[2] \in 1..12
    /\ date[1] \in 1..DaysInMonth(date[3], date[2])

strptime_date(date) ==
    [year |-> date[3], month |-> date[2], day |-> date[1], second |-> 0]

\* The target date of a report: the parsed argument, today's instant when
\* the argument is missing or does not parse.
target_date(date, now) ==
    IF date = None THEN now
    ELSE IF strptime_date_ok(date) THEN strptime_date(date)
    ELSE now

\* The window of a report: <<target_date - timedelta(days=90), target_date>>.
report_window(date, now) ==
    LET target == target_date(date, now)
    IN  <<MinusDays(target, 90), target>>

InWindow(row, window) ==
    /\ Leq(window[1], row.date)
    /\ Leq(row.date, window[2])

RECURSIVE Filter(_, _)
\* Boolean indexing of a DataFrame: the rows whose mask is TRUE, in order.
Filter(rows, mask) ==
    IF rows = <<>> THEN <<>>
    ELSE (IF mask[1] THEN <<Head(rows)>> ELSE <<>>)
            \o Filter(Tail(rows), Tail(mask))

RECURSIVE SumAmounts(_)
SumAmounts(rows) ==
    IF rows = <<>> THEN 0 ELSE Head(rows).amount + SumAmounts(Tail(rows))

Abs(x) == IF x < 0 THEN 0 - x ELSE x

\* A slip: the category is compared as written.
category_mask_exact(row, category) ==
    row.category # NaN /\ row.category = category

\* transactions["Категория"].str.lower() == category.lower(); NaN never
\* compares equal.
category_mask(row, category) ==
    row.category # NaN /\ lower(row.category) = lower(category)

\* spending_by_category: the filtered rows with the four reported columns.
spending_by_category(rows, category, date, now) ==
    LET target == report_window(date, now)
        mask == [i \in 1..Len(rows) |->
                    /\ InWindow(rows[i], target)
                    /\ category_mask(rows[i], category)
                    /\ rows[i].amount < 0]
        filtered_df == Filter(rows, mask)
    IN  [i \in 1..Len(filtered_df) |->
            [date |-> filtered_df[i].date, amount |-> filtered_df[i].amount,
             category |-> filtered_df[i].category,
             description |-> filtered_df[i].description]]

\* A slip: the absolute amounts of income are counted as well.
expense_mask_any_sign(row, target) ==
    /\ InWindow(row, target)
    /\ row.status = "OK"

\* The mask of spending_by_weekday and spending_by_workday: in the window,
\* an expense, status OK.
expense_mask(row, target) ==
    /\ InWindow(row, target)
    /\ row.amount < 0
    /\ row.status = "OK"

weekday_names ==
    <<"Ponedelnik", "Vtornik", "Sreda", "Chetverg", "Pyatnitsa", "Subbota",
      "Voskresenye">>

\* spending_by_weekday: weekday name -> kopecks.  groupby("DayOfWeek").sum()
\* .abs(), then .get(i, 0.0) for each of the seven days; round(.., 2) of a
\* sum of kopecks is that sum.
spending_by_weekday(rows, date, now) ==
    LET target == report_window(date, now)
        expense_transactions ==
            Filter(rows, [i \in 1..Len(rows) |-> expense_mask(rows[i], target)])
        group(i) ==
            Filter(expense_transactions,
                   [k \in 1..Len(expense_transactions) |->
                       weekday(expense_transactions[k].date) = i])
    IN  [name \in {weekday_names[i + 1] : i \in 0..6} |->
            LET i == CHOOSE j \in 0..6 : weekday_names[j + 1] = name
            IN  IF group(i) = <<>> THEN 0 ELSE Abs(SumAmounts(group(i)))]

DateOf(dt) == [year |-> dt.year, month |-> dt.month, day |-> dt.day]

\* A slip: the weekend is taken to start on Sunday.
is_workday_saturday(dt) == weekday(dt) < 6

\* transactions["Дата операции"].dt.dayofweek < 5
is_workday(dt) == weekday(dt) < 5

\* spending_by_workday: calendar date -> kopecks, for the dates that have a
\* row.  groupby(dt.date).sum().abs(); the keys hold no duplicates.
spending_by_workday(rows, date, now) ==
    LET target == report_window(date, now)
        expense_transactions ==
            Filter(rows, [i \in 1..Len(rows) |->
                            /\ expense_mask(rows[i], target)
                            /\ is_workday(rows[i].date)])
        dates == {DateOf(expense_transactions[k].date) :
                     k \in 1..Len(expense_transactions)}
        group(d) ==
            Filter(expense_transactions,
                   [k \in 1..Len(expense_transactions) |->
                       DateOf(expense_transactions[k].date) = d])
    IN  [d \in dates |-> Abs(SumAmounts(group(d)))]

\* report_to_file: the wrapper writes the returned JSON to
\* reports/<function>_<timestamp>.json and returns it.
report_to_file(func, args, now, result_json) ==
    [func |-> func, args |-> args, now |-> now, ret |-> result_json,
     file |-> [path |-> <<"reports", func, now>>, content |-> result_json]]

\* One report is generated per run of a report call.
NoReport == [func |-> "none"]

InitReports ==
    /\ transactions \in Tables
    /\ report = NoReport
    /\ reference = Idle /\ windows = Idle
    /\ data = Idle /\ service = Idle
    /\ today = Idle /\ user_stocks = Idle /\ cache_file = Idle /\ stock_call = Idle
    /\ CliIdle

SpendingByCategory(category, date, now) ==
    /\ report.func = "none"
    /\ report' = report_to_file("spending_by_category",
                                [category |-> category, date |-> date], now,
                                spending_by_category(transactions, category, date, now))
    /\ UNCHANGED <<transactions, dateVars, serviceVars, stockVars, cliVars>>

SpendingByWeekday(date, now) ==
    /\ report.func = "none"
    /\ report' = report_to_file("spending_by_weekday", [date |-> date], now,
                                spending_by_weekday(transactions, date, now))
    /\ UNCHANGED <<transactions, dateVars, serviceVars, stockVars, cliVars>>

SpendingByWorkday(date, now) ==
    /\ report.func = "none"
    /\ report' = report_to_file("spending_by_workday", [date |-> date], now,
                                spending_by_workday(transactions, date, now))
    /\ UNCHANGED <<transactions, dateVars, serviceVars, stockVars, cliVars>>

NextReports ==
    \E date \in DateArgs, now \in Nows :
        \/ \E category \in CategoryArgs : SpendingByCategory(category, date, now)
        \/ SpendingByWeekday(date, now)
        \/ SpendingByWorkday(date, now)

SpecReports == InitReports /\ [][NextReports]_vars

(***************************************************************************)
(* Claims about the spending reports                                       *)
(***************************************************************************)
\* Two letters that are one letter in its two cases.
CasePair(x, y) ==
    \E k \in DOMAIN UpperLetters : {x, y} = {UpperLetters[k], LowerLetters[k]}

\* Two texts that differ at most in the case of their letters.
SameIgnoringCase(a, b) ==
    /\ Len(a) = Len(b)
    /\ \A i \in 1..Len(a) : a[i] = b[i] \/ CasePair(a[i], b[i])

\* The other case of a letter.
SwapCase(x) ==
    IF \E k \in DOMAIN UpperLetters : UpperLetters[k] = x
    THEN LowerLetters[CHOOSE k \in DOMAIN UpperLetters : UpperLetters[k] = x]
    ELSE UpperLetters[CHOOSE k \in DOMAIN UpperLetters : LowerLetters[k] = x]

RECURSIVE CaseVariants(_)
\* Every spelling of a text that differs from it only in letter case.
CaseVariants(text) ==
    IF text = <<>> THEN {<<>>}
    ELSE {<<x>> \o rest : x \in {Head(text), SwapCase(Head(text))},
                          rest \in CaseVariants(Tail(text))}

ReportWindow == report_window(report.args.date, report.now)

\* The rows of the table that are expenses inside the report's window.
ExpenseInWindow(i) ==
    /\ transactions[i].amount < 0
    /\ InWindow(transactions[i], ReportWindow)

SuccessfulExpense(i) == ExpenseInWindow(i) /\ transactions[i].status = "OK"

RECURSIVE SumAbsAt(_)
\* The sum of the absolute amounts of the rows at the positions I.
SumAbsAt(I) ==
    IF I = {} THEN 0
    ELSE LET i == CHOOSE j \in I : TRUE
         IN  Abs(transactions[i].amount) + SumAbsAt(I \ {i})

Project(row) ==
    [date |-> row.date, amount |-> row.amount, category |-> row.category,
     description |-> row.description]

RECURSIVE Pick(_, _, _)
\* The rows at the positions I, from position i on, in table order.
Pick(I, i, rows) ==
    IF i > Len(rows) THEN <<>>
    ELSE (IF i \in I THEN <<Project(rows[i])>> ELSE <<>>) \o Pick(I, i + 1, rows)

\* C5 (as stated): spending_by_category returns exactly the records with
\* status OK, amount < 0, timestamp within [reference - 90 days, reference]
\* and category equal to the requested one ignoring case.
C5_CategoryReportSuccessfulOnly ==
    report.func = "spending_by_category" =>
        report.ret =
            Pick({i \in 1..Len(transactions) :
                     /\ SuccessfulExpense(i)
                     /\ transactions[i].category # NaN
                     /\ SameIgnoringCase(transactions[i].category, report.args.category)},
                 1, transactions)

\* C6: two category arguments that differ only in letter case return
\* identical record sets, for every table and reference date.
C6_CategoryCaseInsensitive ==
    report.func = "spending_by_category" =>
        \A other \in CaseVariants(report.args.category) :
            spending_by_category(transactions, other, report.args.date, report.now)
                = report.ret

\* C6 witness: a category report that returned a record whose category is
\* spelled in another case than the argument.
C6_Witness ==
    /\ report.func = "spending_by_category"
    /\ \E i \in 1..Len(report.ret) :
          /\ report.ret[i].category # report.args.category
          /\ SameIgnoringCase(report.ret[i].category, report.args.category)

\* C7: spending_by_weekday emits exactly the seven weekday keys; each value
\* is the sum of the absolute amounts of the status-OK expenses inside the
\* window that fall on that weekday, 0 when there is none.
C7_WeekdayReport ==
    report.func = "spending_by_weekday" =>
        /\ DOMAIN report.ret = {weekday_names[k] : k \in 1..7}
        /\ Cardinality(DOMAIN report.ret) = 7
        /\ \A k \in 0..6 :
              report.ret[weekday_names[k + 1]] =
                  SumAbsAt({i \in 1..Len(transactions) :
                               /\ SuccessfulExpense(i)
                               /\ weekday(transactions[i].date) = k})

\* C7 witness: a weekday report over a table with two expenses on Tuesdays
\* and an income in the window; Tuesday holds their sum, Wednesday (the
\* income's day) holds 0.
C7_Witness ==
    /\ report.func = "spending_by_weekday"
    /\ Cardinality({i \in 1..Len(transactions) :
                       SuccessfulExpense(i) /\ weekday(transactions[i].date) = 1}) = 2
    /\ \E i \in 1..Len(transactions) :
          /\ transactions[i].amount > 0
          /\ InWindow(transactions[i], ReportWindow)
          /\ weekday(transactions[i].date) = 2
    /\ report.ret["Vtornik"] > 10000
    /\ report.ret["Sreda"] = 0

\* C8: spending_by_workday never emits a Saturday or Sunday; it emits one
\* key per Monday-Friday calendar date that has a status-OK expense inside
\* the window, valued at the sum of that date's absolute amounts, and no
\* other key.
C8_WorkdayReport ==
    report.func = "spending_by_workday" =>
        LET workdayExpenses ==
                {i \in 1..Len(transactions) :
                    /\ SuccessfulExpense(i)
                    /\ weekday(transactions[i].date) \in 0..4}
        IN  /\ \A d \in DOMAIN report.ret : weekday(d) \notin {5, 6}
            /\ DOMAIN report.ret = {DateOf(transactions[i].date) : i \in workdayExpenses}
            /\ \A d \in DOMAIN report.ret :
                  report.ret[d] =
                      SumAbsAt({i \in workdayExpenses : DateOf(transactions[i].date) = d})

\* C8 witness: a workday report over a table that holds a Saturday expense
\* inside the window and a working day with two expenses.
C8_Witness ==
    /\ report.func = "spending_by_workday"
    /\ \E i \in 1..Len(transactions) :
          SuccessfulExpense(i) /\ weekday(transactions[i].date) = 5
    /\ \E d \in DOMAIN report.ret : report.ret[d] = 10000 + 25050

(***************************************************************************)
(* The services (src/src/services.py): investment_bank and                 *)
(* analyze_cashback_categories over a list of transaction dicts.           *)
(***************************************************************************)
\* A transaction dict.  "Дата операции" is the text 'DD.MM.YYYY HH:MM:SS',
\* held as <<day, month, year, second of the day>>, or None.
Dict(date, status, amount, rounding, category) ==
    [date |-> date, status |-> status, amount |-> amount,
     rounding |-> rounding, category |-> category]

\* The dicts a list is drawn from; amounts and round-ups are in kopecks.
SampleDicts ==
    { Dict(<<15, 9, 2020, 36000>>, "OK", -10000, 1000, <<"E", "d", "a">>),
      Dict(<<15, 9, 2020, 64800>>, "OK", -10000, 260, <<"A", "d">>),
      Dict(<<20, 9, 2020, 43200>>, "OK", -25044, 4956, <<"E", "d", "a">>),
      Dict(<<16, 9, 2020, 36000>>, "OK", 50000, 500, <<"D", "a">>),       \* income
      Dict(<<17, 9, 2020, 36000>>, "FAILED", -20000, 700, <<"A", "d">>),  \* declined
      Dict(<<5, 10, 2020, 36000>>, "OK", -3000, 2000, <<"A", "d">>),      \* next month
      Dict(<<15, 9, 2019, 36000>>, "OK", -4000, 300, <<"E", "d", "a">>),  \* a year before
      Dict(<<31, 9, 2020, 36000>>, "OK", -5000, 900, <<"E", "d", "a">>),  \* no such day
      Dict(None, "OK", -6000, 80, <<"E", "d", "a">>),                     \* no date
      Dict(<<18, 9, 2020, 36000>>, "OK", -1234, 66, <<>>),                \* empty category
      Dict(<<18, 9, 2020, 39600>>, "OK", -20000, 40, None) }              \* no category

Lists == SeqsUpTo(SampleDicts, MaxRows)

\* The month argument 'MM.YYYY' as <<month, year>>.
MonthArgs == {<<9, 2020>>, <<10, 2020>>, <<13, 2020>>}

\* The year and month arguments of the cashback analysis.
YearMonthArgs == {<<2020, 9>>, <<2020, 10>>, <<2019, 9>>}

\* datetime.strptime(text, "%d.%m.%Y %H:%M:%S") succeeds: a text (TypeError
\* otherwise) that names an instant of the calendar (ValueError otherwise).
strptime_datetime_ok(text) ==
    /\ IsStr(text)
    /\ text[2] \in 1..12
    /\ text[1] \in 1..DaysInMonth(text[3], text[2])
    /\ text[4] \in 0..(24 * 3600 - 1)

strptime_datetime(text) ==
    [year |-> text[3], month |-> text[2], day |-> text[1], second |-> text[4]]

\* datetime.strptime(month, "%m.%Y") succeeds.
strptime_month_ok(month) == month[1] \in 1..12

\* A slip: the year of the transaction is not compared.
investment_match_month_only(transaction, target_month) ==
    /\ strptime_datetime_ok(transaction.date)
    /\ strptime_datetime(transaction.date).month = target_month[1]
    /\ transaction.status = "OK"
    /\ transaction.amount < 0

\* The test of investment_bank: the date parses (the dict is skipped
\* otherwise), month and year are the target's, status OK, an expense.
investment_match(transaction, target_month) ==
    /\ strptime_datetime_ok(transaction.date)
    /\ strptime_datetime(transaction.date).month = target_month[1]
    /\ strptime_datetime(transaction.date).year = target_month[2]
    /\ transaction.status = "OK"
    /\ transaction.amount < 0

RECURSIVE investment_total(_, _)
\* The loop of investment_bank: total_savings += rounding_amount.
investment_total(month, list) ==
    IF list = <<>> THEN 0
    ELSE (IF investment_match(Head(list), month) THEN Head(list).rounding ELSE 0)
            + investment_total(month, Tail(list))

ValueError == [raised |-> "ValueError"]

\* investment_bank: {"total_savings": total}; an unparseable month argument
\* raises ValueError before the loop.
investment_bank(month, list) ==
    IF ~strptime_month_ok(month) THEN ValueError
    ELSE [total_savings |-> investment_total(month, list)]

\* round(val, 2) of a value held in tenths of a kopeck: the nearest kopeck,
\* an exact half going to the even neighbour.
round2(mills) ==
    LET q == mills \div 10
        r == mills % 10
    IN  IF r < 5 THEN q
        ELSE IF r > 5 THEN q + 1
        ELSE IF q % 2 = 0 THEN q ELSE q + 1

\* The test of analyze_cashback_categories: the date parses, year and month
\* are the target's, status OK, the category is neither None nor empty.
cashback_match(transaction, year, month) ==
    /\ strptime_datetime_ok(transaction.date)
    /\ strptime_datetime(transaction.date).year = year
    /\ strptime_datetime(transaction.date).month = month
    /\ transaction.status = "OK"
    /\ transaction.category # None
    /\ transaction.category # <<>>

\* cashback_per_category after the dict (category, value) got `add` more:
\* an existing key keeps its place, a new key goes last.
Accumulate(per_category, category, add) ==
    IF \E k \in 1..Len(per_category) : per_category[k][1] = category
    THEN [k \in 1..Len(per_category) |->
            IF per_category[k][1] = category
            THEN <<category, per_category[k][2] + add>>
            ELSE per_category[k]]
    ELSE Append(per_category, <<category, add>>)

RECURSIVE cashback_per_category(_, _, _, _)
\* The loop of analyze_cashback_categories, from the dict at position i on:
\* potential_high_cashback = abs(amount) * 0.10, in tenths of a kopeck.
cashback_per_category(list, year, month, acc) ==
    IF list = <<>> THEN acc
    ELSE cashback_per_category(
            Tail(list), year, month,
            IF cashback_match(Head(list), year, month)
            THEN Accumulate(acc, Head(list).category, Abs(Head(list).amount))
            ELSE acc)

RECURSIVE sorted_ascending(_)
\* sorted(items, key=value): stable, ascending.
sorted_ascending(items) ==
    IF items = <<>> THEN <<>>
    ELSE LET k == CHOOSE k \in 1..Len(items) :
                    /\ \A j \in 1..Len(items) : items[k][2] <= items[j][2]
                    /\ \A j \in 1..(k - 1) : items[j][2] > items[k][2]
         IN  <<items[k]>> \o
             sorted_ascending([j \in 1..(Len(items) - 1) |->
                                  IF j < k THEN items[j] ELSE items[j + 1]])

\* A slip: ascending sort, then reversed, which reverses the ties as well.
sorted_ascending_reversed(items) ==
    LET asc == sorted_ascending(items)
    IN  [k \in 1..Len(asc) |-> asc[Len(asc) + 1 - k]]

RECURSIVE sorted_reverse(_)
\* sorted(items, key=value, reverse=True): descending by value, items of
\* equal value in their original order.
sorted_reverse(items) ==
    IF items = <<>> THEN <<>>
    ELSE LET k == CHOOSE k \in 1..Len(items) :
                    /\ \A j \in 1..Len(items) : items[k][2] >= items[j][2]
                    /\ \A j \in 1..(k - 1) : items[j][2] < items[k][2]
         IN  <<items[k]>> \o
             sorted_reverse([j \in 1..(Len(items) - 1) |->
                                IF j < k THEN items[j] ELSE items[j + 1]])

\* analyze_cashback_categories: the JSON object's (category, value) pairs in
\* key order, values rounded to kopecks.
analyze_cashback_categories(list, year, month) ==
    LET sorted_categories ==
            sorted_reverse(cashback_per_category(list, year, month, <<>>))
    IN  [k \in 1..Len(sorted_categories) |->
            <<sorted_categories[k][1], round2(sorted_categories[k][2])>>]

NoService == [func |-> "none"]

InitServices ==
    /\ data \in Lists
    /\ service = NoService
    /\ reference = Idle /\ windows = Idle
    /\ transactions = Idle /\ report = Idle
    /\ today = Idle /\ user_stocks = Idle /\ cache_file = Idle /\ stock_call = Idle
    /\ CliIdle

InvestmentBank(month) ==
    /\ service.func = "none"
    /\ service' = [func |-> "investment_bank", month |-> month,
                   ret |-> investment_bank(month, data)]
    /\ UNCHANGED <<data, dateVars, reportVars, stockVars, cliVars>>

AnalyzeCashbackCategories(year, month) ==
    /\ service.func = "none"
    /\ service' = [func |-> "analyze_cashback_categories",
                   year |-> year, month |-> month,
                   ret |-> analyze_cashback_categories(data, year, month)]
    /\ UNCHANGED <<data, dateVars, reportVars, stockVars, cliVars>>

NextServices ==
    \/ \E month \in MonthArgs : InvestmentBank(month)
    \/ \E ym \in YearMonthArgs : AnalyzeCashbackCategories(ym[1], ym[2])

SpecServices == InitServices /\ [][NextServices]_vars

(***************************************************************************)
(* Claims about the services                                               *)
(***************************************************************************)
\* The dict counts for the investment total of <<month, year>>: a date of
\* that month and year, status OK, an expense.
CountsForMonth(t, month) ==
    /\ t.date # None
    /\ t.date[1] \in 1..DaysInMonth(t.date[3], t.date[2])
    /\ <<t.date[2], t.date[3]>> = month
    /\ t.status = "OK"
    /\ t.amount < 0

RECURSIVE SumRoundingAt(_)
\* The sum of the round-up amounts of the dicts at the positions I.
SumRoundingAt(I) ==
    IF I = {} THEN 0
    ELSE LET i == CHOOSE j \in I : TRUE
         IN  data[i].rounding + SumRoundingAt(I \ {i})

\* The list with dict t put in front of position pos + 1.
InsertAt(list, pos, t) ==
    [k \in 1..(Len(list) + 1) |->
        IF k <= pos THEN list[k] ELSE IF k = pos + 1 THEN t ELSE list[k - 1]]

CountsForCashback(i) ==
    /\ data[i].date # None
    /\ data[i].date[1] \in 1..DaysInMonth(data[i].date[3], data[i].date[2])
    /\ data[i].date[3] = service.year
    /\ data[i].date[2] = service.month
    /\ data[i].status = "OK"
    /\ data[i].category \notin {None, <<>>}

RECURSIVE SumAbsAmountAt(_)
SumAbsAmountAt(I) ==
    IF I = {} THEN 0
    ELSE LET i == CHOOSE j \in I : TRUE
         IN  Abs(data[i].amount) + SumAbsAmountAt(I \ {i})

\* Ten times the cashback accumulated for a category: the sum of the
\* absolute amounts of its counted dicts.
Accumulated(category) ==
    SumAbsAmountAt({i \in 1..Len(data) :
                       CountsForCashback(i) /\ data[i].category = category})

FirstSeen(category) ==
    CHOOSE i \in 1..Len(data) :
        /\ CountsForCashback(i) /\ data[i].category = category
        /\ \A j \in 1..(i - 1) : ~(CountsForCashback(j) /\ data[j].category = category)

Symbols == {"AAPL", "AMZN", "GOOGL"}

\* settings["user_stocks"]: a list of distinct ticker symbols.
Settings ==
    { <<>>, <<"AAPL">>, <<"AAPL", "AMZN">>, <<"AMZN", "AAPL">> }

Days == 1..NumDays

\* The "date" of a cache object that is missing or is no text.
NoDateText == 0

\* An element of the "stocks" list: an object with a numeric price, an
\* object whose price is no number, an object whose "stock" is a list
\* (unhashable), or a value that is no object.
Entry(stock, price) == [kind |-> "entry", stock |-> stock, price |-> price]
TextPriceEntry(stock) == [kind |-> "price_not_number", stock |-> stock]
UnhashableEntry == [kind |-> "unhashable"]
NotAnObject == [kind |-> "not_object"]

\* The content of stock_cache.json.
Absent == [kind |-> "absent"]
NotJson == [kind |-> "not_json"]
JsonNotObject == [kind |-> "json_not_object"]
StocksNotList(date) == [kind |-> "stocks_not_list", date |-> date]
Cache(date, stocks) == [kind |-> "object", date |-> date, stocks |-> stocks]

\* The cache files a run may find when it starts, on day 1.
InitialCaches ==
    { Absent, NotJson, JsonNotObject, StocksNotList(1),
      Cache(1, <<>>),
      Cache(1, <<Entry("AAPL", 140)>>),
      Cache(1, <<Entry("AAPL", 0)>>),
      Cache(1, <<Entry("AAPL", 140), Entry("AMZN", 150)>>),
      Cache(1, <<Entry("AAPL", 140), Entry("AMZN", 0)>>),
      Cache(1, <<Entry("AAPL", 0), Entry("AMZN", 0)>>),
      Cache(1, <<Entry("AMZN", 150), Entry("GOOGL", 140)>>),
      Cache(1, <<Entry("AAPL", 140), Entry("AMZN", 150), Entry("GOOGL", 140)>>),
      Cache(1, <<TextPriceEntry("AAPL"), Entry("AMZN", 150)>>),
      Cache(1, <<Entry("AAPL", 140), NotAnObject>>),
      Cache(1, <<Entry("AAPL", 140), UnhashableEntry, Entry("AMZN", 150)>>),
      Cache(2, <<Entry("AAPL", 140), Entry("AMZN", 150)>>),
      Cache(NoDateText, <<Entry("AAPL", 140), Entry("AMZN", 150)>>) }

\* What the quote provider answers to one request.
FetchOutcomes ==
    { [kind |-> "price", price |-> 140],       \* "05. price": "140.0"
      [kind |-> "price", price |-> 150],
      [kind |-> "price", price |-> 0],         \* "05. price": "0.0"
      [kind |-> "no_price"],                   \* no "Global Quote" / "05. price"
      [kind |-> "bad_price_text"],             \* float() raises ValueError
      [kind |-> "timeout"],                    \* requests.exceptions.Timeout
      [kind |-> "network_error"],              \* another RequestException
      [kind |-> "payload_not_object"],         \* data.get raises AttributeError
      [kind |-> "price_not_text"] }            \* float() raises TypeError

\* The outcome of writing the cache file.
WriteOutcomes == {"ok", "open_failed", "write_failed"}

NoPrices == [x \in {} |-> 0]

Put(prices, symbol, price) ==
    [x \in DOMAIN prices \cup {symbol} |-> IF x = symbol THEN price ELSE prices[x]]

RECURSIVE load_items(_, _)
\* The loop over stocks_list: <<exception, existing_prices_by_symbol>>.  A
\* value that is no object raises AttributeError at item.get; an
\* unhashable symbol raises TypeError, which is caught after the loop was
\* left.
load_items(items, existing) ==
    IF items = <<>> THEN <<"none", existing>>
    ELSE LET item == Head(items)
         IN  IF item.kind = "not_object" THEN <<"AttributeError", existing>>
             ELSE IF item.kind = "unhashable" THEN <<"none", existing>>
             ELSE load_items(Tail(items),
                             Put(existing, item.stock,
                                 IF item.kind = "entry" THEN item.price ELSE 0))

\* Loading the cache: <<exception that leaves the function,
\* existing_prices_by_symbol>>.
load_cache(file, day) ==
    IF file.kind \in {"absent", "not_json"} THEN <<"none", NoPrices>>
    ELSE IF file.kind = "json_not_object" THEN <<"AttributeError", NoPrices>>
    ELSE IF file.date = NoDateText \/ file.date # day THEN <<"none", NoPrices>>
    ELSE IF file.kind = "stocks_not_list" THEN <<"none", NoPrices>>
    ELSE load_items(file.stocks, NoPrices)

\* A slip: a price of 0.0 in the cache is taken for a valid price.
is_missing_or_broken_absent_only(symbol, existing) == symbol \notin DOMAIN existing

is_missing_or_broken(symbol, existing) ==
    symbol \notin DOMAIN existing \/ existing[symbol] = 0

missing_or_broken(stocks, existing) ==
    SelectSeq(stocks, LAMBDA symbol : is_missing_or_broken(symbol, existing))

\* The exception one answer lets escape from the loop body, "none" when the
\* body completes.
escapes(outcome) ==
    IF outcome.kind = "payload_not_object" THEN "AttributeError"
    ELSE IF outcome.kind = "price_not_text" THEN "TypeError"
    ELSE "none"

\* The price one answer puts into updated_symbols.
fetched_price(outcome) == IF outcome.kind = "price" THEN outcome.price ELSE 0

RECURSIVE fetch_all(_, _, _, _)
\* The request loop from position i on:
\* <<exception, updated_symbols, number of requests issued>>.
fetch_all(missing, responses, i, updated) ==
    IF i > Len(missing) THEN <<"none", updated, Len(missing)>>
    ELSE IF escapes(responses[i]) # "none" THEN <<escapes(responses[i]), updated, i>>
    ELSE fetch_all(missing, responses, i + 1,
                   Put(updated, missing[i], fetched_price(responses[i])))

\* A slip: the second loop is left out, no cached price is carried over.
keep_unchanged_nothing(stocks, existing, missing, updated) == updated

RECURSIVE keep_unchanged(_, _, _, _)
\* The second loop: a symbol of the cache that was not refreshed keeps its
\* price when that price is not 0.0.
keep_unchanged(stocks, existing, missing, updated) ==
    IF stocks = <<>> THEN updated
    ELSE LET symbol == Head(stocks)
             kept == IF symbol \notin DOMAIN existing \/ symbol \in DOMAIN updated
                     THEN updated
                     ELSE IF existing[symbol] # 0
                             /\ ~(\E k \in 1..Len(missing) : missing[k] = symbol)
                     THEN Put(updated, symbol, existing[symbol])
                     ELSE updated
         IN  keep_unchanged(Tail(stocks), existing, missing, kept)

final_stocks_list(stocks, updated) ==
    [k \in 1..Len(stocks) |->
        Entry(stocks[k], IF stocks[k] \in DOMAIN updated THEN updated[stocks[k]] ELSE 0)]

NoStockCall == [func |-> "none"]

\* What a call's record keeps of one answer: whether the fetch failed, and
\* the price the answer carried.
Observed(outcome) ==
    [failed |-> outcome.kind # "price", price |-> fetched_price(outcome)]

Answers(responses, n) == [k \in 1..n |-> Observed(responses[k])]

\* The record of a call that an exception left.
Raised(day, file, missing, requests, responses, exception) ==
    [func |-> "get_stock_prices", day |-> day, read |-> file,
     missing |-> missing, requests |-> requests, responses |-> responses,
     raised |-> exception, ret |-> <<>>, write |-> "none"]

\* get_stock_prices on calendar day `day` with the cache file `file`; the
\* k-th request is answered responses[k], the write ends as `write`.
\* <<call record, new content of the cache file>>.
get_stock_prices(stocks, day, file, responses, write) ==
    LET loaded == load_cache(file, day)
        existing == loaded[2]
        missing == missing_or_broken(stocks, existing)
        fetched == fetch_all(missing, responses, 1, NoPrices)
        issued == fetched[3]
        updated == keep_unchanged(stocks, existing, missing, fetched[2])
        final == final_stocks_list(stocks, updated)
    IN  IF loaded[1] # "none"
        THEN <<Raised(day, file, <<>>, <<>>, <<>>, loaded[1]), file>>
        ELSE IF fetched[1] # "none"
        THEN <<Raised(day, file, missing, SubSeq(missing, 1, issued),
                      Answers(responses, issued), fetched[1]), file>>
        ELSE << [func |-> "get_stock_prices", day |-> day, read |-> file,
                 missing |-> missing, requests |-> missing,
                 responses |-> Answers(responses, issued),
                 raised |-> "none", ret |-> final, write |-> write],
                IF write = "ok" THEN Cache(day, final)
                ELSE IF write = "write_failed" THEN NotJson
                ELSE file >>

InitStocks ==
    /\ today = 1
    /\ user_stocks \in Settings
    /\ cache_file \in InitialCaches
    /\ stock_call = NoStockCall
    /\ reference = Idle /\ windows = Idle
    /\ transactions = Idle /\ report = Idle
    /\ data = Idle /\ service = Idle
    /\ CliIdle

\* One call of get_stock_prices.  The provider's answers are drawn for the
\* requests the call issues.
GetStockPrices ==
    \E write \in WriteOutcomes :
        LET stale == missing_or_broken(user_stocks, load_cache(cache_file, today)[2])
        IN  \E responses \in [1..Len(stale) -> FetchOutcomes] :
                LET result == get_stock_prices(user_stocks, today, cache_file,
                                               responses, write)
                IN  /\ stock_call' = result[1]
                    /\ cache_file' = result[2]
                    /\ UNCHANGED <<today, user_stocks, dateVars, reportVars, serviceVars, cliVars>>

\* Midnight passes.
NextDay ==
    /\ today < NumDays
    /\ today' = today + 1
    /\ UNCHANGED <<user_stocks, cache_file, stock_call, dateVars, reportVars, serviceVars, cliVars>>

NextStocks == GetStockPrices \/ NextDay

SpecStocks == InitStocks /\ [][NextStocks]_vars

(***************************************************************************)
(* Properties of the price cache.                                          *)
(***************************************************************************)
StockCall == stock_call.func = "get_stock_prices"

\* The cache file is the object the program writes (a date and a list of
\* entries with numeric prices), and its date is the day of the call.
SameDayCache(file, day) ==
    /\ file.kind = "object"
    /\ file.date = day
    /\ \A k \in DOMAIN file.stocks : file.stocks[k].kind = "entry"

\* The prices the cache file holds for a symbol.
CachedPrices(file, symbol) ==
    { file.stocks[k].price : k \in { j \in DOMAIN file.stocks : file.stocks[j].stock = symbol } }

StaleIn(file, symbol) ==
    CachedPrices(file, symbol) = {} \/ 0 \in CachedPrices(file, symbol)

RequestsFor(symbol) ==
    Cardinality({ k \in DOMAIN stock_call.requests : stock_call.requests[k] = symbol })

\* The price the returned list gives a symbol.
ReturnedPrices(symbol) ==
    { stock_call.ret[k].price : k \in { j \in DOMAIN stock_call.ret : stock_call.ret[j].stock = symbol } }

\* C1: when the cache file carries the date of the call, a call issues
\* exactly one request for each tracked symbol that is absent from the cache
\* or cached with price 0.0, and none for a symbol cached with a nonzero
\* price.
C1_OneRequestPerStaleSymbol ==
    (StockCall /\ SameDayCache(stock_call.read, stock_call.day)) =>
        \A k \in DOMAIN user_stocks :
            RequestsFor(user_stocks[k]) =
                IF StaleIn(stock_call.read, user_stocks[k]) THEN 1 ELSE 0

\* The same statement for the calls no exception left: it holds there.
C1_OneRequestPerStaleSymbolUnlessRaised ==
    (StockCall /\ SameDayCache(stock_call.read, stock_call.day)
               /\ stock_call.raised = "none") =>
        \A k \in DOMAIN user_stocks :
            RequestsFor(user_stocks[k]) =
                IF StaleIn(stock_call.read, user_stocks[k]) THEN 1 ELSE 0

\* A fully fresh same-day cache was read and no request was issued.
C1_FreshCacheNoRequest ==
    /\ StockCall /\ SameDayCache(stock_call.read, stock_call.day)
    /\ Len(user_stocks) = 2
    /\ \A k \in DOMAIN user_stocks : ~StaleIn(stock_call.read, user_stocks[k])
    /\ stock_call.requests = <<>> /\ stock_call.raised = "none"

\* A fetch of the call failed.
SomeFetchFailed == \E k \in DOMAIN stock_call.responses : stock_call.responses[k].failed

\* C2: when the fetch of a symbol fails (timeout, network error, missing
\* price, malformed payload of any shape), the call does not raise, every
\* stale symbol is still requested, the returned list has an entry for
\* every tracked symbol, the failed symbol's price is 0.0 and a symbol
\* whose fetch succeeded has the price that was fetched.
C2_FetchFailureDegradesOnlyThatSymbol ==
    (StockCall /\ SomeFetchFailed) =>
        /\ stock_call.raised = "none"
        /\ stock_call.requests = stock_call.missing
        /\ Len(stock_call.ret) = Len(user_stocks)
        /\ \A k \in DOMAIN user_stocks : stock_call.ret[k].stock = user_stocks[k]
        /\ \A k \in DOMAIN stock_call.requests :
               ReturnedPrices(stock_call.requests[k]) =
                   { IF stock_call.responses[k].failed THEN 0
                     ELSE stock_call.responses[k].price }

\* The same statement for the failures the loop body catches: it holds
\* there.
C2_CaughtFailureDegradesOnlyThatSymbol ==
    (StockCall /\ SomeFetchFailed /\ stock_call.raised = "none") =>
        /\ stock_call.requests = stock_call.missing
        /\ Len(stock_call.ret) = Len(user_stocks)
        /\ \A k \in DOMAIN user_stocks : stock_call.ret[k].stock = user_stocks[k]
        /\ \A k \in DOMAIN stock_call.requests :
               ReturnedPrices(stock_call.requests[k]) =
                   { IF stock_call.responses[k].failed THEN 0
                     ELSE stock_call.responses[k].price }

\* The first of two stale symbols was answered with a payload that let an
\* exception escape: the second was never requested.
C2_BatchAborted ==
    /\ StockCall
    /\ stock_call.raised # "none"
    /\ Len(stock_call.missing) = 2
    /\ Len(stock_call.requests) = 1

\* The call returned and its write of the cache file succeeded.
WrittenCall ==
    StockCall /\ stock_call.raised = "none" /\ stock_call.write = "ok"

\* The symbol has a valid entry in the cache file the call read: the file is
\* a well-formed cache of the day of the call and holds a nonzero price for
\* the symbol.
ValidIn(file, day, symbol) == SameDayCache(file, day) /\ ~StaleIn(file, symbol)

\* C24: after a call that completes with a successful write the cache file
\* holds the date of the call and exactly one entry per tracked symbol in
\* the order of user_stocks; a refreshed symbol carries the price that was
\* fetched (0.0 when the fetch failed), a symbol that was valid in the
\* same-day cache is not refreshed and carries its cached price; the list
\* in the file is the list returned.
C24_PersistedCache ==
    WrittenCall =>
        /\ cache_file = Cache(stock_call.day, stock_call.ret)
        /\ Len(cache_file.stocks) = Len(user_stocks)
        /\ \A k \in DOMAIN user_stocks :
               /\ cache_file.stocks[k].kind = "entry"
               /\ cache_file.stocks[k].stock = user_stocks[k]
               /\ IF ValidIn(stock_call.read, stock_call.day, user_stocks[k])
                  THEN /\ RequestsFor(user_stocks[k]) = 0
                       /\ {cache_file.stocks[k].price} =
                              CachedPrices(stock_call.read, user_stocks[k])
                  ELSE SameDayCache(stock_call.read, stock_call.day) =>
                           RequestsFor(user_stocks[k]) = 1
        /\ \A j \in DOMAIN stock_call.requests :
               \E k \in DOMAIN user_stocks :
                   /\ user_stocks[k] = stock_call.requests[j]
                   /\ cache_file.stocks[k].price =
                          IF stock_call.responses[j].failed THEN 0
                          ELSE stock_call.responses[j].price

\* A call kept the cached price of one symbol, refreshed the other and
\* wrote both to the file.
C24_Witness ==
    /\ WrittenCall
    /\ user_stocks = <<"AAPL", "AMZN">>
    /\ stock_call.read = Cache(1, <<Entry("AAPL", 140), Entry("AMZN", 0)>>)
    /\ stock_call.requests = <<"AMZN">>
    /\ cache_file = Cache(1, <<Entry("AAPL", 140), Entry("AMZN", 150)>>)

\* The cache file the call read carries a date stamp that is not the day of
\* the call.
StaleDateRead ==
    /\ StockCall
    /\ stock_call.read.kind \in {"object", "stocks_not_list"}
    /\ stock_call.read.date # NoDateText
    /\ stock_call.read.date # stock_call.day

\* Every tracked symbol was requested, in order, and the returned list (and
\* the file, when it was written) holds what the requests gave.
AllFetched ==
    /\ stock_call.requests = user_stocks
    /\ stock_call.ret =
           [k \in DOMAIN user_stocks |->
               Entry(user_stocks[k],
                     IF stock_call.responses[k].failed THEN 0
                     ELSE stock_call.responses[k].price)]
    /\ stock_call.write = "ok" => cache_file = Cache(stock_call.day, stock_call.ret)

\* C25: a cache file whose date stamp differs from the day of the call is a
\* miss for every symbol: the call requests every tracked symbol, and the
\* returned list and the rewritten cache hold the fetched prices, none of
\* the prices of the stale file.
C25_StaleDateRefetchesAll == StaleDateRead => AllFetched

\* The same statement for the calls no exception left: it holds there.
C25_StaleDateRefetchesAllUnlessRaised ==
    (StaleDateRead /\ stock_call.raised = "none") => AllFetched

\* A file of the day before was read on the second day; the price it held
\* for the symbol is not the price returned.
C25_StaleFileIgnored ==
    /\ StaleDateRead /\ stock_call.raised = "none"
    /\ stock_call.day = 2
    /\ stock_call.read = Cache(1, <<Entry("AAPL", 140)>>)
    /\ stock_call.ret = <<Entry("AAPL", 150)>>

\* The cache file exists but is invalid: no JSON, a JSON value that is no
\* object, a "stocks" value that is no list, or a list with an entry that
\* is no object or carries a price that is no number.
InvalidCache(file) ==
    \/ file.kind \in {"not_json", "json_not_object", "stocks_not_list"}
    \/ /\ file.kind = "object"
       /\ \E k \in DOMAIN file.stocks : file.stocks[k].kind # "entry"

\* C26: a cache file that exists but is invalid is treated as an empty
\* cache: the call does not raise, requests every tracked symbol and writes
\* a new well-formed cache.
C26_InvalidCacheIsEmptyCache ==
    (StockCall /\ InvalidCache(stock_call.read)) =>
        /\ stock_call.raised = "none"
        /\ stock_call.requests = user_stocks
        /\ stock_call.write = "ok" =>
               /\ cache_file = Cache(stock_call.day, stock_call.ret)
               /\ SameDayCache(cache_file, stock_call.day)

\* The same statement for a file that is no JSON and a call that no answer
\* of the provider made raise: it holds there.
C26_UnparseableCacheIsEmptyCache ==
    (StockCall /\ stock_call.read.kind = "not_json" /\ stock_call.raised = "none") =>
        /\ stock_call.requests = user_stocks
        /\ stock_call.write = "ok" =>
               /\ cache_file = Cache(stock_call.day, stock_call.ret)
               /\ SameDayCache(cache_file, stock_call.day)

\* A file holding a JSON value that is no object was read: the call raised
\* before any request.
C26_NonObjectCacheRaised ==
    /\ StockCall
    /\ stock_call.read = JsonNotObject
    /\ user_stocks # <<>>
    /\ stock_call.raised = "AttributeError"
    /\ stock_call.requests = <<>>

\* The file the call read was a same-day cache with a nonzero price for
\* every tracked symbol.
FullyFreshRead ==
    /\ StockCall
    /\ user_stocks # <<>>
    /\ SameDayCache(stock_call.read, stock_call.day)
    /\ \A k \in DOMAIN user_stocks : ~StaleIn(stock_call.read, user_stocks[k])

\* C27: when the same-day cache is fully fresh for every tracked symbol the
\* call serves from the cache and leaves the content of the cache file as
\* it was: no entry added, removed, reordered or altered, the entries of
\* symbols that are not tracked included.
C27_FreshCacheFileUnchanged == FullyFreshRead => cache_file = stock_call.read

\* What holds instead: the call issues no request, returns the cached
\* prices, and a successful write leaves the tracked symbols only.
C27_FreshCacheFileRewritten ==
    FullyFreshRead =>
        /\ stock_call.requests = <<>>
        /\ stock_call.raised = "none"
        /\ \A k \in DOMAIN user_stocks :
               {stock_call.ret[k].price} = CachedPrices(stock_call.read, user_stocks[k])
        /\ stock_call.write = "ok" => cache_file = Cache(stock_call.day, stock_call.ret)

\* A fully fresh cache with an entry of a symbol that is not tracked was
\* read: the file written no longer holds that entry.
C27_UntrackedEntryDropped ==
    /\ FullyFreshRead
    /\ user_stocks = <<"AAPL">>
    /\ stock_call.read = Cache(1, <<Entry("AAPL", 140), Entry("AMZN", 150)>>)
    /\ cache_file = Cache(1, <<Entry("AAPL", 140)>>)

\* The number of requests a call issued for a symbol.
RequestsIn(call, symbol) ==
    Cardinality({ k \in DOMAIN call.requests : call.requests[k] = symbol })

\* The cache file was written by the last call, on the current day, and
\* the step is another call on that day.
AnotherCallThatDay == WrittenCall /\ stock_call.day = today /\ today' = today

\* What a later call of the day does with the symbols of the call before
\* it: a symbol returned with the price 0.0 is requested once, a symbol
\* returned with a nonzero price is not requested and is returned with the
\* same price.
LaterCallRefreshesSentinelsOnly ==
    /\ \A k \in DOMAIN user_stocks :
           RequestsIn(stock_call', user_stocks[k]) =
               IF stock_call.ret[k].price = 0 THEN 1 ELSE 0
    /\ stock_call'.raised = "none" =>
           \A k \in DOMAIN user_stocks :
               stock_call.ret[k].price # 0 => stock_call'.ret[k] = stock_call.ret[k]

\* C28: over the calls of one calendar day with unchanged user_stocks and
\* successful cache writes, each stale symbol is attempted once within a
\* call, a symbol whose price is the 0.0 sentinel is fetched again by every
\* later call until a nonzero price is obtained, and a symbol with a
\* nonzero cached price is never fetched again that day and its returned
\* price never changes.
C28_SentinelRefetchedNonzeroKept ==
    [][AnotherCallThatDay => LaterCallRefreshesSentinelsOnly]_vars

\* The same statement for the later calls that no exception leaves: it
\* holds there.
C28_SentinelRefetchedNonzeroKeptUnlessRaised ==
    [][(AnotherCallThatDay /\ stock_call'.raised = "none")
          => LaterCallRefreshesSentinelsOnly]_vars

(***************************************************************************)
(* The searches (src/src/services.py): simple_search,                      *)
(* search_transfers_to_individuals, search_transactions_by_phone_numbers.  *)
(*                                                                         *)
(* A text is the sequence of its characters.  A record is a dict whose     *)
(* "Описание" is a text and whose "Категория" is a text or None; its other *)
(* values are texts and numbers, which json.dumps writes as they are, so   *)
(* the returned JSON text is held as the list of records it encodes.       *)
(***************************************************************************)
\* \s, \d, [А-ЯЁ] and [а-яё] over the characters of the model.
Whitespace == {" ", "\t"}
Digits == {"5", "7", "8", "9"}
CyrillicUpper == {"E", "D", "A", "P", "I"}
CyrillicLower == {"e", "d", "a", "p", "i", "r", "v", "o", "y", "n"}

SearchRecord(description, category) ==
    [description |-> description, category |-> category]

Eda == <<"E", "d", "a">>
Perevody == <<"P", "e", "r", "e", "v", "o", "d", "y">>
PerevodyLower == <<"p", "e", "r", "e", "v", "o", "d", "y">>
PerevodyPadded == <<" ">> \o Perevody \o <<" ">>
IvanI == <<"I", "v", "a", "n", " ", "I", ".">>
IvanILower == <<"i", "v", "a", "n", " ", "i", ".">>
LatinIvI == <<"lat:I", "lat:i", " ", "lat:I", ".">>
PhoneHyphens ==
    <<"+", "7", " ", "9", "9", "5", " ", "5", "5", "5", "-", "5", "5", "-", "5", "5">>
PhoneSpaces ==
    <<"+", "7", " ", "9", "9", "5", " ", "5", "5", "5", " ", "5", "5", " ", "5", "5">>
PhoneHyphenAfterCode ==
    <<"+", "7", "-", "9", "9", "5", "-", "5", "5", "5", "-", "5", "5", "-", "5", "5">>
PhoneEight ==
    <<"8", " ", "9", "9", "5", " ", "5", "5", "5", " ", "5", "5", " ", "5", "5">>
PhoneTabs ==
    <<"+", "7", " ", "9", "9", "5", " ", "5", "5", "5", "\t", "5", "5", "\t", "5", "5">>
PhoneWide ==
    <<"E", "d", "a", " ", "+", "7", " ", "\t", "9", "9", "5", " ", " ", "5", "5", "5",
      "-", "5", "5", " ", "5", "5", "9">>
PhoneShort ==
    <<"+", "7", " ", "9", "9", "5", " ", "5", "5", "5", "-", "5", "5", "-", "5">>

\* The records a list is drawn from.
SampleRecords ==
    { SearchRecord(PhoneHyphens, Eda),
      SearchRecord(PhoneSpaces, Perevody),
      SearchRecord(PhoneHyphenAfterCode, Eda),
      SearchRecord(PhoneEight, Eda),
      SearchRecord(PhoneTabs, Eda),
      SearchRecord(PhoneWide, <<"A", "d">>),
      SearchRecord(PhoneShort, Eda),
      SearchRecord(IvanI, Perevody),
      SearchRecord(IvanI \o <<" ">> \o PhoneHyphens, PerevodyLower),
      SearchRecord(IvanI, Eda),
      SearchRecord(Eda, Perevody),
      SearchRecord(IvanI, PerevodyPadded),
      SearchRecord(LatinIvI, Perevody),
      SearchRecord(IvanILower, Perevody),
      SearchRecord(<<>>, <<>>),
      SearchRecord(IvanI, None),
      SearchRecord(Eda, None) }

RecordLists == SeqsUpTo(SampleRecords, MaxRecords)

Queries == { <<>>, <<"e", "d">>, <<"E", "D", "A">>, <<"v", "a", "n">>, <<"5", "-", "5">>, <<"y", "y">> }

\* needle in haystack, for two texts.
Contains(needle, haystack) ==
    \E i \in 0..(Len(haystack) - Len(needle)) :
        SubSeq(haystack, i + 1, i + Len(needle)) = needle

RECURSIVE lstrip(_)
lstrip(text) ==
    IF text # <<>> /\ Head(text) \in Whitespace THEN lstrip(Tail(text)) ELSE text

RECURSIVE rstrip(_)
rstrip(text) ==
    IF text # <<>> /\ text[Len(text)] \in Whitespace
    THEN rstrip(SubSeq(text, 1, Len(text) - 1)) ELSE text

\* str.strip()
strip(text) == rstrip(lstrip(text))

\* The characters text[from..to] exist and all lie in the class.
AllIn(text, from, to, class) ==
    /\ to <= Len(text)
    /\ \A k \in from..to : text[k] \in class

\* A slip: the groups of the number are separated by a hyphen only.
group_separator_hyphen_only == {"-"}

\* [\s\-]
group_separator == Whitespace \cup {"-"}

\* \+7\s+\d{3}\s+\d{3}[\s\-]\d{2}[\s\-]\d{2} matches from position i, with
\* a and b characters in the two runs of \s+.
phone_pattern_at(text, i, a, b) ==
    LET first == i + 2 + a        \* the first \d{3}
        second == first + 3 + b   \* the second \d{3}
        third == second + 4       \* the first \d{2}
        fourth == third + 3       \* the second \d{2}
    IN  /\ fourth + 1 <= Len(text)
        /\ text[i] = "+" /\ text[i + 1] = "7"
        /\ AllIn(text, i + 2, first - 1, Whitespace)
        /\ AllIn(text, first, first + 2, Digits)
        /\ AllIn(text, first + 3, second - 1, Whitespace)
        /\ AllIn(text, second, second + 2, Digits)
        /\ text[second + 3] \in group_separator
        /\ AllIn(text, third, third + 1, Digits)
        /\ text[third + 2] \in group_separator
        /\ AllIn(text, fourth, fourth + 1, Digits)

\* pattern.search(description) of search_transactions_by_phone_numbers
phone_pattern_search(text) ==
    \E i \in 1..Len(text) : \E a \in 1..Len(text) : \E b \in 1..Len(text) :
        phone_pattern_at(text, i, a, b)

\* [А-ЯЁ][а-яё]+\s+[А-ЯЁ]\. matches from position i, with a small letters
\* and b characters of white space.
name_pattern_at(text, i, a, b) ==
    LET initial == i + 1 + a + b
    IN  /\ initial + 1 <= Len(text)
        /\ text[i] \in CyrillicUpper
        /\ AllIn(text, i + 1, i + a, CyrillicLower)
        /\ AllIn(text, i + a + 1, initial - 1, Whitespace)
        /\ text[initial] \in CyrillicUpper
        /\ text[initial + 1] = "."

\* pattern.search(description) of search_transfers_to_individuals
name_pattern_search(text) ==
    \E i \in 1..Len(text) : \E a \in 1..Len(text) : \E b \in 1..Len(text) :
        name_pattern_at(text, i, a, b)

\* The result of a search: the exception that left it ("none" when it
\* returned) and the records of the JSON text it returned.
Found(results) == [raised |-> "none", ret |-> results]
SearchRaised(exception) == [raised |-> exception, ret |-> <<>>]

\* json.dumps(results, ensure_ascii=False, indent=2): a record that holds a
\* Timestamp is not JSON serializable, TypeError.
json_dumps(found) ==
    IF /\ found.raised = "none"
       /\ \E k \in DOMAIN found.ret :
              "date" \in DOMAIN found.ret[k] /\ IsTimestamp(found.ret[k].date)
    THEN SearchRaised("TypeError")
    ELSE found

RECURSIVE simple_search_from(_, _, _)
\* The loop of simple_search over the rest of the list.  .lower() of a
\* description or a category that is no text (None, NaN) raises
\* AttributeError.
simple_search_from(query_lower, rest, results) ==
    IF rest = <<>> THEN Found(results)
    ELSE LET transaction == Head(rest)
         IN  IF ~IsStr(transaction.description) \/ ~IsStr(transaction.category)
             THEN SearchRaised("AttributeError")
             ELSE simple_search_from(
                      query_lower, Tail(rest),
                      IF \/ Contains(query_lower, lower(transaction.description))
                         \/ Contains(query_lower, lower(transaction.category))
                      THEN Append(results, transaction) ELSE results)

simple_search(query, records) ==
    json_dumps(simple_search_from(lower(query), records, <<>>))

RECURSIVE transfers_from(_, _)
\* The loop of search_transfers_to_individuals.  category.strip() of a
\* category that is no text raises AttributeError; pattern.search of a
\* description that is no text raises TypeError, when the category is that
\* of a transfer.
transfers_from(rest, results) ==
    IF rest = <<>> THEN Found(results)
    ELSE LET transaction == Head(rest)
         IN  IF ~IsStr(transaction.category) THEN SearchRaised("AttributeError")
             ELSE IF /\ lower(strip(transaction.category)) = PerevodyLower
                     /\ ~IsStr(transaction.description)
             THEN SearchRaised("TypeError")
             ELSE transfers_from(
                      Tail(rest),
                      IF /\ lower(strip(transaction.category)) = PerevodyLower
                         /\ name_pattern_search(transaction.description)
                      THEN Append(results, transaction) ELSE results)

search_transfers_to_individuals(records) == json_dumps(transfers_from(records, <<>>))

RECURSIVE phones_from(_, _)
\* pattern.search of a description that is no text raises TypeError.
phones_from(rest, results) ==
    IF rest = <<>> THEN Found(results)
    ELSE IF ~IsStr(Head(rest).description) THEN SearchRaised("TypeError")
    ELSE phones_from(Tail(rest),
                     IF phone_pattern_search(Head(rest).description)
                     THEN Append(results, Head(rest)) ELSE results)

search_transactions_by_phone_numbers(records) == json_dumps(phones_from(records, <<>>))

InitSearch ==
    /\ data \in RecordLists
    /\ service = NoService
    /\ reference = Idle /\ windows = Idle
    /\ transactions = Idle /\ report = Idle
    /\ today = Idle /\ user_stocks = Idle /\ cache_file = Idle /\ stock_call = Idle
    /\ CliIdle

SimpleSearch(query) ==
    /\ service.func = "none"
    /\ service' = [func |-> "simple_search", query |-> query,
                   result |-> simple_search(query, data)]
    /\ UNCHANGED <<data, dateVars, reportVars, stockVars, cliVars>>

SearchTransfersToIndividuals ==
    /\ service.func = "none"
    /\ service' = [func |-> "search_transfers_to_individuals",
                   result |-> search_transfers_to_individuals(data)]
    /\ UNCHANGED <<data, dateVars, reportVars, stockVars, cliVars>>

SearchTransactionsByPhoneNumbers ==
    /\ service.func = "none"
    /\ service' = [func |-> "search_transactions_by_phone_numbers",
                   result |-> search_transactions_by_phone_numbers(data)]
    /\ UNCHANGED <<data, dateVars, reportVars, stockVars, cliVars>>

NextSearch ==
    \/ \E query \in Queries : SimpleSearch(query)
    \/ SearchTransfersToIndividuals
    \/ SearchTransactionsByPhoneNumbers

SpecSearch == InitSearch /\ [][NextSearch]_vars

(***************************************************************************)
(* Properties of the searches.                                             *)
(***************************************************************************)
\* n characters of one class.
Run(class, n) == [k \in 1..n |-> class]

\* The text has the length of the pattern and each character lies in the
\* class at its place.
Fits(text, pattern) ==
    /\ Len(text) = Len(pattern)
    /\ \A k \in 1..Len(text) : text[k] \in pattern[k]

\* '+7', white space, 3 digits, white space, 3 digits, a separator,
\* 2 digits, a separator, 2 digits.
PhoneForm(text, separator) ==
    \E a \in 1..(Len(text) - 15) :
        Fits(text, <<{"+"}, {"7"}>> \o Run(Whitespace, a) \o Run(Digits, 3)
                     \o Run(Whitespace, Len(text) - 14 - a) \o Run(Digits, 3)
                     \o <<separator>> \o Run(Digits, 2)
                     \o <<separator>> \o Run(Digits, 2))

HasPhone(text, separator) ==
    \E i \in 1..Len(text) : \E j \in i..Len(text) :
        PhoneForm(SubSeq(text, i, j), separator)

PhoneSearched == service.func = "search_transactions_by_phone_numbers"

Returned(record) == \E k \in DOMAIN service.result.ret : service.result.ret[k] = record

\* C11: the phone search returns, in input order, exactly the records whose
\* description contains '+7', white space, 3 digits, white space, 3 digits,
\* one space or hyphen, 2 digits, one space or hyphen, 2 digits (a space
\* being any white space character, as in the pattern's [\s\-]).
\* Descriptions that contain '+7 995 555-55-55' or '+7 995 555 55 55' are
\* returned, '+7-995-555-55-55' and '8 995 555 55 55' are not.
C11_PhoneSearch ==
    PhoneSearched =>
        /\ service.result.raised = "none"
        /\ service.result.ret =
               SelectSeq(data, LAMBDA r : HasPhone(r.description, Whitespace \cup {"-"}))
        /\ \A k \in DOMAIN data :
               /\ (\/ Contains(PhoneHyphens, data[k].description)
                   \/ Contains(PhoneSpaces, data[k].description)) => Returned(data[k])
               /\ data[k].description \in {PhoneHyphenAfterCode, PhoneEight}
                      => ~Returned(data[k])

\* A list of a rejected and an accepted number was searched.
C11_Witness ==
    /\ PhoneSearched
    /\ Len(data) = 2
    /\ data[1].description = PhoneHyphenAfterCode
    /\ data[2].description = PhoneSpaces
    /\ service.result.ret = <<data[2]>>

\* The text contains the query when letter case is ignored.
ContainsIgnoringCase(query, text) ==
    \E i \in 0..(Len(text) - Len(query)) :
        SameIgnoringCase(SubSeq(text, i + 1, i + Len(query)), query)

\* A capitalized word, white space, a capital letter and a period.
NameForm(text) ==
    \E a \in 1..(Len(text) - 4) :
        Fits(text, <<CyrillicUpper>> \o Run(CyrillicLower, a)
                     \o Run(Whitespace, Len(text) - 3 - a)
                     \o <<CyrillicUpper, {"."}>>)

HasName(text) ==
    \E i \in 1..Len(text) : \E j \in i..Len(text) : NameForm(SubSeq(text, i, j))

\* The category is the word for transfers, in any letter case.
IsTransfers(category) ==
    category # None /\ SameIgnoringCase(strip(category), Perevody)

TransfersSearched == service.func = "search_transfers_to_individuals"
SimpleSearched == service.func = "simple_search"

TransfersExpected ==
    SelectSeq(data, LAMBDA r : IsTransfers(r.category) /\ HasName(r.description))

\* C12: the transfers search returns, in input order, exactly the records
\* whose category is the word for transfers in any letter case and whose
\* description contains a capitalized word, white space and a capital
\* letter followed by a period.
C12_TransfersSearch ==
    TransfersSearched =>
        /\ service.result.raised = "none"
        /\ service.result.ret = TransfersExpected

\* The same statement for the calls no exception left: it holds there.
C12_TransfersSearchUnlessRaised ==
    (TransfersSearched /\ service.result.raised = "none") =>
        service.result.ret = TransfersExpected

SimpleExpected ==
    SelectSeq(data, LAMBDA r :
        \/ ContainsIgnoringCase(service.query, r.description)
        \/ r.category # None /\ ContainsIgnoringCase(service.query, r.category))

\* C13: simple_search returns exactly the subsequence of the list made of
\* the whole records whose description or category contains the query when
\* letter case is ignored.
C13_SimpleSearch ==
    SimpleSearched =>
        /\ service.result.raised = "none"
        /\ service.result.ret = SimpleExpected

\* The same statement for the calls no exception left: it holds there.
C13_SimpleSearchUnlessRaised ==
    (SimpleSearched /\ service.result.raised = "none") =>
        service.result.ret = SimpleExpected

\* C20: simple_search and search_transfers_to_individuals return a result
\* for every list, a list with a record whose category is None included.
C20_SearchNeverRaises ==
    (SimpleSearched \/ TransfersSearched) => service.result.raised = "none"

\* A list with a record whose category is None was searched.
C20_NullCategorySearched ==
    /\ SimpleSearched \/ TransfersSearched
    /\ \E k \in DOMAIN data : data[k].category = None

(***************************************************************************)
(* The home page (src/src/utils.py): filter_transactions_by_date_range,    *)
(* calculate_cards_data and get_top_transactions over the DataFrame.       *)
(***************************************************************************)
\* A row of the DataFrame; amounts and cashback are in kopecks, the card
\* number is a text or NaN.
ViewRow(date, status, amount, category, card, cashback) ==
    [date |-> date, status |-> status, amount |-> amount, category |-> category,
     description |-> "Kino", card |-> card, cashback |-> cashback]

Card7197 == <<"*", "7", "1", "9", "7">>
Card4556 == <<"*", "4", "5", "5", "6">>
\* An account number that ends with the digits of the first card.
Account7197 == <<"4", "0", "8", "7", "1", "9", "7">>

\* The card numbers in the order of the group keys (groupby sorts them as
\* texts: "*" < "4").
CardOrder == <<Card4556, Card7197, Account7197>>

ViewRows ==
    { ViewRow(At(2020, 10, 1, 10, 0, 0), "OK", -10000, Eda, Card7197, 100),
      ViewRow(At(2020, 10, 5, 12, 0, 0), "OK", -25044, <<"A", "d">>, Card7197, 0),
      ViewRow(At(2020, 10, 5, 12, 0, 0), "FAILED", -30000, Eda, Card7197, 300),
      ViewRow(At(2020, 10, 10, 9, 0, 0), "OK", 25044, <<"D", "a">>, Card7197, 0),
      ViewRow(At(2020, 10, 12, 9, 0, 0), "OK", -30000, Eda, Card4556, 500),
      ViewRow(At(2020, 10, 14, 9, 0, 0), "OK", -7000, NaN, NaN, 0),
      ViewRow(At(2020, 10, 15, 20, 0, 0), "OK", -8000, Eda, Card4556, 80),
      ViewRow(At(2020, 9, 30, 23, 59, 59), "OK", -6000, Eda, Card7197, 60),
      ViewRow(At(2020, 10, 13, 9, 0, 0), "OK", -10000, Eda, Account7197, 0),
      ViewRow(At(2020, 10, 15, 18, 0, 0), "PENDING", 40000, <<"D", "a">>, Card4556, 0) }

\* The target date 'DD.MM.YYYY HH:MM:SS' of the home page.
TargetDates == { At(2020, 10, 15, 18, 0, 0), At(2020, 10, 15, 0, 0, 0),
                 At(2020, 9, 30, 23, 59, 59) }

\* target_date.replace(day=1): the time of day stays.
start_of_month(target) == [target EXCEPT !.day = 1]

filter_transactions_by_date_range(rows, target) ==
    Filter(rows, [i \in 1..Len(rows) |->
                    /\ Leq(start_of_month(target), rows[i].date)
                    /\ Leq(rows[i].date, target)])

\* A slip: every expense counts, whatever its status.
card_expense_mask_any_status(row) == row.amount < 0

\* (Статус == "OK") & (Сумма операции < 0)
card_expense_mask(row) == row.status = "OK" /\ row.amount < 0

\* card_number[-4:]
last_digits(card_number) ==
    SubSeq(card_number, IF Len(card_number) > 4 THEN Len(card_number) - 3 ELSE 1,
           Len(card_number))

\* round(total_spent / 100, 2) in kopecks: the nearest kopeck, an exact half
\* going to the even neighbour.
calculated_cashback(total_spent) ==
    LET q == total_spent \div 100
        r == total_spent % 100
    IN  IF r < 50 THEN q
        ELSE IF r > 50 THEN q + 1
        ELSE IF q % 2 = 0 THEN q ELSE q + 1

\* groupby("Номер карты"): one group per card number that occurs, in the
\* order of the keys; rows without a card number are in no group.
calculate_cards_data(rows) ==
    LET expense_transactions ==
            Filter(rows, [i \in 1..Len(rows) |-> card_expense_mask(rows[i])])
        group(card) ==
            Filter(expense_transactions,
                   [i \in 1..Len(expense_transactions) |->
                        expense_transactions[i].card = card])
        keys == SelectSeq(CardOrder, LAMBDA card : group(card) # <<>>)
    IN  [k \in 1..Len(keys) |->
            LET total_spent == 0 - SumAmounts(group(keys[k]))
            IN  [last_digits |-> last_digits(keys[k]),
                 total_spent |-> total_spent,
                 cashback |-> calculated_cashback(total_spent)]]

RECURSIVE insert_by_abs(_, _)
\* The place of a row in a list ordered by falling absolute amount: behind
\* every row that is at least as large.
insert_by_abs(row, sorted) ==
    IF sorted = <<>> THEN <<row>>
    ELSE IF Abs(Head(sorted).amount) >= Abs(row.amount)
    THEN <<Head(sorted)>> \o insert_by_abs(row, Tail(sorted))
    ELSE <<row>> \o sorted

RECURSIVE sort_by_abs(_, _)
sort_by_abs(rows, sorted) ==
    IF rows = <<>> THEN sorted
    ELSE sort_by_abs(Tail(rows), insert_by_abs(Head(rows), sorted))

\* DataFrame.nlargest(n, "abs_amount"), keep="first".
nlargest(n, rows) ==
    LET sorted == sort_by_abs(rows, <<>>)
    IN  SubSeq(sorted, 1, IF n < Len(sorted) THEN n ELSE Len(sorted))

\* A slip: the rows are not filtered by status.
valid_mask_any_status(row) == TRUE

\* Статус == "OK"
valid_mask(row) == row.status = "OK"

\* strftime("%d.%m.%Y"): the date without the time of day.
strftime_date(datetime) == <<datetime.day, datetime.month, datetime.year>>

NotAvailable == <<"N", "/", "A">>

get_top_transactions(rows, n) ==
    LET valid_transactions == Filter(rows, [i \in 1..Len(rows) |-> valid_mask(rows[i])])
        top == nlargest(n, valid_transactions)
    IN  [k \in 1..Len(top) |->
            [date |-> strftime_date(top[k].date),
             amount |-> top[k].amount,
             category |-> IF top[k].category = NaN THEN NotAvailable ELSE top[k].category,
             description |-> top[k].description]]
ViewTables == SeqsUpTo(ViewRows, MaxRows)

\* The n of get_top_transactions.
TopSizes == {0, 1, 2, 5}

InitViews ==
    /\ transactions \in ViewTables
    /\ report = NoReport
    /\ reference = Idle /\ windows = Idle
    /\ data = Idle /\ service = Idle
    /\ today = Idle /\ user_stocks = Idle /\ cache_file = Idle /\ stock_call = Idle
    /\ CliIdle

FilterTransactionsByDateRange(target) ==
    /\ report.func = "none"
    /\ report' = [func |-> "filter_transactions_by_date_range", target |-> target,
                  ret |-> filter_transactions_by_date_range(transactions, target)]
    /\ UNCHANGED <<transactions, dateVars, serviceVars, stockVars, cliVars>>

CalculateCardsData ==
    /\ report.func = "none"
    /\ report' = [func |-> "calculate_cards_data",
                  ret |-> calculate_cards_data(transactions)]
    /\ UNCHANGED <<transactions, dateVars, serviceVars, stockVars, cliVars>>

GetTopTransactions(n) ==
    /\ report.func = "none"
    /\ report' = [func |-> "get_top_transactions", n |-> n,
                  ret |-> get_top_transactions(transactions, n)]
    /\ UNCHANGED <<transactions, dateVars, serviceVars, stockVars, cliVars>>

NextViews ==
    \/ \E target \in TargetDates : FilterTransactionsByDateRange(target)
    \/ CalculateCardsData
    \/ \E n \in TopSizes : GetTopTransactions(n)

SpecViews == InitViews /\ [][NextViews]_vars

(***************************************************************************)
(* Properties of the home page functions.                                  *)
(***************************************************************************)
\* Day 1, 00:00:00 of the month of a date.
FirstInstantOfMonth(date) == [date EXCEPT !.day = 1, !.second = 0]

Filtered == report.func = "filter_transactions_by_date_range"

\* C14: the filter retains exactly the records dated from the first instant
\* (day 1, 00:00:00) of the target's month up to the target instant,
\* whatever the target's time of day.
C14_FilterFromFirstInstant ==
    Filtered =>
        report.ret = SelectSeq(transactions, LAMBDA r :
                         /\ Leq(FirstInstantOfMonth(report.target), r.date)
                         /\ Leq(r.date, report.target))

\* The same statement for a target at midnight: it holds there.
C14_FilterFromFirstInstantAtMidnight ==
    (Filtered /\ report.target.second = 0) =>
        report.ret = SelectSeq(transactions, LAMBDA r :
                         /\ Leq(FirstInstantOfMonth(report.target), r.date)
                         /\ Leq(r.date, report.target))

CardsCalculated == report.func = "calculate_cards_data"

\* The rows that are successful expenses on a card.
CardExpenses ==
    SelectSeq(transactions, LAMBDA r : r.status = "OK" /\ r.amount < 0 /\ r.card # NaN)

Suffix(card) == SubSeq(card, Len(card) - 3, Len(card))

RECURSIVE SumOf(_, _)
\* The sum of a column over a list of rows.
SumOf(rows, column) ==
    IF rows = <<>> THEN 0 ELSE Head(rows)[column] + SumOf(Tail(rows), column)

EntriesWith(suffix) == { k \in DOMAIN report.ret : report.ret[k].last_digits = suffix }

\* C15: one entry per distinct last-4-digits suffix that has a successful
\* expense; its total_spent is the sign-flipped sum of the successful
\* expenses of that suffix; nothing else contributes.
C15_OneEntryPerSuffix ==
    CardsCalculated =>
        /\ \A k \in DOMAIN report.ret :
               \E i \in DOMAIN CardExpenses :
                   Suffix(CardExpenses[i].card) = report.ret[k].last_digits
        /\ \A i \in DOMAIN CardExpenses :
               LET suffix == Suffix(CardExpenses[i].card)
               IN  /\ Cardinality(EntriesWith(suffix)) = 1
                   /\ \A k \in EntriesWith(suffix) :
                          report.ret[k].total_spent =
                              0 - SumOf(SelectSeq(CardExpenses,
                                            LAMBDA r : Suffix(r.card) = suffix), "amount")

\* No two card numbers of the table end with the same four digits.
SuffixesDistinct ==
    \A i, j \in DOMAIN transactions :
        (transactions[i].card # NaN /\ transactions[j].card # NaN
            /\ Suffix(transactions[i].card) = Suffix(transactions[j].card))
        => transactions[i].card = transactions[j].card

\* The same statement for such tables: it holds there.
C15_OneEntryPerSuffixWhenDistinct ==
    (CardsCalculated /\ SuffixesDistinct) =>
        /\ \A k \in DOMAIN report.ret :
               \E i \in DOMAIN CardExpenses :
                   Suffix(CardExpenses[i].card) = report.ret[k].last_digits
        /\ \A i \in DOMAIN CardExpenses :
               LET suffix == Suffix(CardExpenses[i].card)
               IN  /\ Cardinality(EntriesWith(suffix)) = 1
                   /\ \A k \in EntriesWith(suffix) :
                          report.ret[k].total_spent =
                              0 - SumOf(SelectSeq(CardExpenses,
                                            LAMBDA r : Suffix(r.card) = suffix), "amount")

\* C16: the cashback of a card's entry is the sum of the cashback recorded
\* in that card's transactions.
C16_CashbackSummedFromRecords ==
    CardsCalculated =>
        \A k \in DOMAIN report.ret :
            report.ret[k].cashback =
                SumOf(SelectSeq(CardExpenses,
                          LAMBDA r : Suffix(r.card) = report.ret[k].last_digits),
                      "cashback")

TopTaken == report.func = "get_top_transactions"

OkRows == { i \in DOMAIN transactions : transactions[i].status = "OK" }

\* The place of a successful row among the successful rows: behind every
\* row of a larger absolute amount and every earlier row of the same.
Rank(i) ==
    1 + Cardinality({ j \in OkRows :
            \/ Abs(transactions[j].amount) > Abs(transactions[i].amount)
            \/ Abs(transactions[j].amount) = Abs(transactions[i].amount) /\ j < i })

Min(a, b) == IF a < b THEN a ELSE b

\* C17: get_top_transactions(T, n) returns min(n, number of successful
\* rows) records, the successful rows in the order of falling absolute
\* amount, rows of equal absolute amount in input order, each with its
\* signed amount; a row left out is not larger than a returned one.
C17_TopTransactions ==
    TopTaken =>
        /\ Len(report.ret) = Min(report.n, Cardinality(OkRows))
        /\ transactions = <<>> => report.ret = <<>>
        /\ \A k \in DOMAIN report.ret :
               \E i \in OkRows :
                   /\ Rank(i) = k
                   /\ report.ret[k].amount = transactions[i].amount
                   /\ report.ret[k].date = <<transactions[i].date.day,
                                             transactions[i].date.month,
                                             transactions[i].date.year>>
                   /\ report.ret[k].description = transactions[i].description
                   /\ \A j \in OkRows :
                          Rank(j) > Len(report.ret) =>
                              Abs(transactions[j].amount) <= Abs(transactions[i].amount)

\* The two largest of three successful rows were taken, an income before an
\* expense of the same absolute amount, a declined larger expense and a
\* smaller expense left out.
C17_Witness ==
    /\ TopTaken /\ report.n = 2
    /\ Len(transactions) = 3
    /\ transactions[1].status = "FAILED" /\ transactions[1].amount = -30000
    /\ transactions[2].amount = 25044
    /\ transactions[3].amount = -25044
    /\ Len(report.ret) = 2
    /\ report.ret[1].amount = 25044 /\ report.ret[2].amount = -25044

(***************************************************************************)
(* The events page (src/src/views.py): events_page_data.                   *)
(***************************************************************************)
Nalichnye == <<"N", "a", "l", "i", "c", "h", "n", "y", "e">>
Ostalnoe == <<"O", "s", "t", "a", "l", "n", "o", "e">>

\* The categories of the tables and what each spends, in kopecks.
EventCategories ==
    << Eda, <<"A", "d">>, <<"D", "a">>, Perevody, Nalichnye, <<"E", "d">>,
       <<"A", "e">>, <<"D", "e">>, <<"P", "i">>, <<"I", "a">> >>
EventSpend == <<50000, 90000, 30000, 90050, 10000, 70000, 20000, 50, 40000, 80000>>

\* One successful expense per category 1..k; every second one lies before
\* the week of 15.10.2020.
EventBase(k) ==
    [c \in 1..k |->
        ViewRow(IF c % 2 = 1 THEN At(2020, 10, 13, 9, 0, 0) ELSE At(2020, 10, 5, 9, 0, 0),
                "OK", 0 - EventSpend[c], EventCategories[c], Card7197, 0)]

\* Rows that a table may hold besides: a declined expense, an income, an
\* expense without a category, one more expense of the seventh category,
\* an expense of the month before.
EventExtras ==
    << ViewRow(At(2020, 10, 13, 10, 0, 0), "FAILED", -99900, Eda, Card7197, 0),
       ViewRow(At(2020, 10, 13, 11, 0, 0), "OK", 123456, <<"D", "a">>, Card7197, 0),
       ViewRow(At(2020, 10, 13, 12, 0, 0), "OK", -5000, NaN, NaN, 0),
       ViewRow(At(2020, 10, 13, 13, 0, 0), "OK", -10000, <<"A", "e">>, Card4556, 0),
       ViewRow(At(2020, 9, 30, 9, 0, 0), "OK", -77700, Eda, Card4556, 0) >>

EventTables ==
    { EventBase(k) \o SelectSeq(EventExtras, LAMBDA row : row \in chosen) :
        k \in 0..NumCategories,
        chosen \in SUBSET {EventExtras[x] : x \in DOMAIN EventExtras} }

\* date_str 'DD.MM.YYYY HH:MM:SS' as <<day, month, year, second of the day>>.
EventDates == { <<15, 10, 2020, 64800>>, <<31, 2, 2020, 0>> }
EventPeriods == {"W", "M", "ALL"}

\* What the currency service answers: the rates, a failed request, a
\* payload that is no object.
CurrencyOutcomes == {"rates", "request_failed", "payload_not_object"}

Rates == << [currency |-> "USD", rate |-> 9000] >>

\* get_currency_rates: <<exception that leaves it, rates>>.
get_currency_rates(outcome) ==
    IF outcome = "rates" THEN <<"none", Rates>>
    ELSE IF outcome = "request_failed" THEN <<"none", <<>>>>
    ELSE <<"AttributeError", <<>>>>

\* groupby("Категория")["Сумма операции"].sum(): category -> sum; rows
\* without a category are in no group.
groupby_category_sum(rows) ==
    [c \in {rows[i].category : i \in 1..Len(rows)} \ {NaN} |->
        SumAmounts(Filter(rows, [i \in 1..Len(rows) |-> rows[i].category = c]))]

\* .abs().astype(int) of a sum of kopecks: whole roubles.
abs_astype_int(summary) == [c \in DOMAIN summary |-> Abs(summary[c]) \div 100]

\* .astype(int) of a sum of kopecks that is positive: whole roubles.
astype_int(summary) == [c \in DOMAIN summary |-> summary[c] \div 100]

RECURSIVE sort_values_descending(_)
\* sort_values(ascending=False): the orders the default sort may give, the
\* order among equal values being any.
sort_values_descending(summary) ==
    IF DOMAIN summary = {} THEN {<<>>}
    ELSE LET largest == {c \in DOMAIN summary :
                            \A e \in DOMAIN summary : summary[e] <= summary[c]}
         IN  UNION { { <<[category |-> c, amount |-> summary[c]]>> \o rest :
                         rest \in sort_values_descending(
                                      [e \in DOMAIN summary \ {c} |-> summary[e]]) } :
                     c \in largest }

RECURSIVE SumEntries(_)
SumEntries(entries) ==
    IF entries = <<>> THEN 0 ELSE Head(entries).amount + SumEntries(Tail(entries))

\* A slip: the remainder starts with the seventh category.
rest_sum_from_seventh(main_expense_summary) ==
    SumEntries(SubSeq(main_expense_summary, 7, Len(main_expense_summary)))

\* main_expense_summary.iloc[7:].sum()
rest_sum(main_expense_summary) ==
    SumEntries(SubSeq(main_expense_summary, 8, Len(main_expense_summary)))

\* head(7), and the entry of the rest when the rest is positive.
main_expense_list(main_expense_summary) ==
    SubSeq(main_expense_summary, 1,
           IF Len(main_expense_summary) < 7 THEN Len(main_expense_summary) ELSE 7)
      \o (IF rest_sum(main_expense_summary) > 0
          THEN <<[category |-> Ostalnoe, amount |-> rest_sum(main_expense_summary)]>>
          ELSE <<>>)

\* df filtered by the window, status OK.
valid_transactions(rows, window) ==
    Filter(rows, [i \in 1..Len(rows) |->
                     InWindow(rows[i], window) /\ rows[i].status = "OK"])

expenses_df(rows, window) ==
    LET valid == valid_transactions(rows, window)
    IN  Filter(valid, [i \in 1..Len(valid) |-> valid[i].amount < 0])

income_df(rows, window) ==
    LET valid == valid_transactions(rows, window)
    IN  Filter(valid, [i \in 1..Len(valid) |-> valid[i].amount > 0])

transfers_and_cash_df(expenses) ==
    Filter(expenses, [i \in 1..Len(expenses) |->
                         expenses[i].category \in {Nalichnye, Perevody}])

\* The response of events_page_data, the three summaries in the orders the
\* sort gave them.
events_response(rows, window, main_sorted, cash_sorted, income_sorted, rates, prices) ==
    [expenses |->
        [total_amount |-> (0 - SumAmounts(expenses_df(rows, window))) \div 100,
         main |-> main_expense_list(main_sorted),
         transfers_and_cash |-> cash_sorted],
     income |->
        [total_amount |-> SumAmounts(income_df(rows, window)) \div 100,
         main |-> income_sorted],
     currency_rates |-> rates,
     stock_prices |-> prices]

EventsCall(date_str, period, exception, response) ==
    [func |-> "events_page_data", date_str |-> date_str, period |-> period,
     raised |-> exception, ret |-> response]

NoResponse == [expenses |-> <<>>]

InitEvents ==
    /\ transactions \in EventTables
    /\ report = NoReport
    /\ today = 1
    /\ user_stocks = <<"AAPL">>
    /\ cache_file = Absent
    /\ stock_call = NoStockCall
    /\ reference = Idle /\ windows = Idle
    /\ data = Idle /\ service = Idle
    /\ CliIdle

\* events_page_data(df, date_str, period) on calendar day `day` with the
\* tracked symbols `stocks` and the cache file `file`: the date is parsed,
\* the table summarised, the currency rates and then the stock prices are
\* fetched.  The set of <<call record, get_stock_prices record, new content
\* of the cache file>> the call may end with, one for every order the
\* sorts may give equal sums and every answer of the two services and
\* outcome of the write that the environment `env` holds; last_call stands
\* for the get_stock_prices record when the call does not get that far.
events_page_data(rows, date_str, period, day, stocks, file, last_call, env) ==
    IF ~strptime_datetime_ok(date_str)
    THEN { <<EventsCall(date_str, period, "ValueError", NoResponse), last_call, file>> }
    ELSE LET window == get_date_range(strptime_datetime(date_str), period)
             expenses == expenses_df(rows, window)
             stale == missing_or_broken(stocks, load_cache(file, day)[2])
             outcome(main_sorted, cash_sorted, income_sorted, currency, write, responses) ==
                 LET rates == get_currency_rates(currency)
                     result == get_stock_prices(stocks, day, file, responses, write)
                 IN  IF rates[1] # "none"
                     THEN <<EventsCall(date_str, period, rates[1], NoResponse),
                            last_call, file>>
                     ELSE IF result[1].raised # "none"
                     THEN <<EventsCall(date_str, period, result[1].raised, NoResponse),
                            result[1], result[2]>>
                     ELSE <<EventsCall(date_str, period, "none",
                                events_response(rows, window, main_sorted, cash_sorted,
                                                income_sorted, rates[2], result[1].ret)),
                            result[1], result[2]>>
         IN  { outcome(main_sorted, cash_sorted, income_sorted, currency, write, responses) :
                   main_sorted \in sort_values_descending(
                                       abs_astype_int(groupby_category_sum(expenses))),
                   cash_sorted \in sort_values_descending(
                                       abs_astype_int(groupby_category_sum(
                                           transfers_and_cash_df(expenses)))),
                   income_sorted \in sort_values_descending(
                                       astype_int(groupby_category_sum(
                                           income_df(rows, window)))),
                   currency \in env.currency,
                   write \in env.write,
                   responses \in [1..Len(stale) -> env.fetch] }

\* Every answer of the services and every outcome of a write.
AnyEnvironment ==
    [currency |-> CurrencyOutcomes, fetch |-> FetchOutcomes, write |-> WriteOutcomes]

EventsPageData(date_str, period) ==
    /\ report.func = "none"
    /\ \E outcome \in events_page_data(transactions, date_str, period, today,
                                       user_stocks, cache_file, stock_call,
                                       AnyEnvironment) :
           /\ report' = outcome[1]
           /\ stock_call' = outcome[2]
           /\ cache_file' = outcome[3]
    /\ UNCHANGED <<transactions, today, user_stocks, dateVars, serviceVars, cliVars>>

NextEvents == \E date_str \in EventDates, period \in EventPeriods : EventsPageData(date_str, period)

SpecEvents == InitEvents /\ [][NextEvents]_vars

(***************************************************************************)
(* Properties of the events page.                                          *)
(***************************************************************************)
EventsReturned == report.func = "events_page_data" /\ report.raised = "none"

EventWindow == get_date_range(strptime_datetime(report.date_str), report.period)

\* The successful expenses of the table inside the period window.
WindowExpenses ==
    SelectSeq(transactions, LAMBDA r :
        /\ Leq(EventWindow[1], r.date) /\ Leq(r.date, EventWindow[2])
        /\ r.status = "OK" /\ r.amount < 0)

SpendCategories == {WindowExpenses[i].category : i \in DOMAIN WindowExpenses} \ {NaN}

\* The spend of a category, in whole roubles.
Spend(c) ==
    (0 - SumOf(SelectSeq(WindowExpenses, LAMBDA r : r.category = c), "amount")) \div 100

MainList == report.ret.expenses.main

\* The spend of every category with a successful expense inside the window.
SpendByCategory == [c \in SpendCategories |-> Spend(c)]

RECURSIVE Total(_, _)
\* The sum of a function over some of its arguments.
Total(f, S) ==
    IF S = {} THEN 0
    ELSE LET c == CHOOSE x \in S : TRUE IN f[c] + Total(f, S \ {c})

\* C18: the main expense list of events_page_data has at most 8 entries:
\* the up to 7 categories of the largest successful spend inside the
\* window, in falling order of spend, then one entry for the rest equal to
\* the spend of all other categories, present only when there are more
\* than 7 categories and that spend is positive; no category is both among
\* the top ones and in the rest.
C18_MainExpenseList ==
    EventsReturned =>
        LET spend == SpendByCategory
            main == MainList
            length == Min(7, Cardinality(DOMAIN spend))
            top == {main[k].category : k \in 1..Min(length, Len(main))}
            rest == Total(spend, DOMAIN spend \ top)
        IN  /\ Len(main) <= 8
            /\ Len(main) >= length
            /\ Cardinality(top) = length
            /\ top \subseteq DOMAIN spend
            /\ \A k \in 1..length :
                   /\ main[k].amount = spend[main[k].category]
                   /\ k > 1 => main[k - 1].amount >= main[k].amount
                   /\ \A c \in DOMAIN spend \ top : spend[c] <= main[k].amount
            /\ IF Cardinality(DOMAIN spend) > 7 /\ rest > 0
               THEN /\ Len(main) = 8
                    /\ main[8] = [category |-> Ostalnoe, amount |-> rest]
               ELSE Len(main) = length

\* A table of nine categories gave the seven largest and the rest.
C18_Witness ==
    /\ EventsReturned
    /\ Cardinality(SpendCategories) = 9
    /\ Len(MainList) = 8
    /\ MainList[1].amount = 900 /\ MainList[7].amount = 200
    /\ MainList[8] = [category |-> Ostalnoe, amount |-> 100]

\* Eight categories, the eighth below one rouble: no entry for the rest.
C18_NoRest ==
    /\ EventsReturned
    /\ Cardinality(SpendCategories) = 8
    /\ Len(MainList) = 7

(***************************************************************************)
(* The aggregates together: one call of any of them per run, over a table  *)
(* or over a list of transaction dicts.                                    *)
(***************************************************************************)
AggregateTables == SeqsUpTo(ViewRows, MaxRecords)
AggregateLists == SeqsUpTo(SampleDicts, MaxRecords)

InitAggregates ==
    /\ \/ transactions \in AggregateTables /\ data = <<>>
       \/ transactions = <<>> /\ data \in AggregateLists
    /\ report = NoReport
    /\ service = NoService
    /\ today = 1
    /\ user_stocks = <<"AAPL">>
    /\ cache_file = Cache(1, <<Entry("AAPL", 140)>>)
    /\ stock_call = NoStockCall
    /\ reference = Idle /\ windows = Idle
    /\ CliIdle

\* No aggregate was computed yet in this run.
NothingCalled == report.func = "none" /\ service.func = "none"

NextAggregates ==
    \/ NothingCalled /\ CalculateCardsData
    \/ \E n \in TopSizes : NothingCalled /\ GetTopTransactions(n)
    \/ \E date \in DateArgs, now \in Nows : NothingCalled /\ SpendingByWeekday(date, now)
    \/ \E date \in DateArgs, now \in Nows : NothingCalled /\ SpendingByWorkday(date, now)
    \/ \E date_str \in EventDates, period \in EventPeriods :
           NothingCalled /\ EventsPageData(date_str, period)
    \/ \E month \in MonthArgs : NothingCalled /\ InvestmentBank(month)
    \/ \E ym \in YearMonthArgs : NothingCalled /\ AnalyzeCashbackCategories(ym[1], ym[2])

SpecAggregates == InitAggregates /\ [][NextAggregates]_vars

\* The records whose status is OK.
OnlyOK(records) == SelectSeq(records, LAMBDA r : r.status = "OK")

\* C19: a record whose status is not OK contributes nothing to the card
\* summary, the top transactions, the weekday and workday reports, the
\* expense and income totals of the events page, the investment total and
\* the cashback analysis: each is what it is for the input without its
\* non-OK records.
C19_NonOkContributesNothing ==
    /\ report.func = "calculate_cards_data" =>
           report.ret = calculate_cards_data(OnlyOK(transactions))
    /\ report.func = "get_top_transactions" =>
           report.ret = get_top_transactions(OnlyOK(transactions), report.n)
    /\ report.func = "spending_by_weekday" =>
           report.ret = spending_by_weekday(OnlyOK(transactions), report.args.date, report.now)
    /\ report.func = "spending_by_workday" =>
           report.ret = spending_by_workday(OnlyOK(transactions), report.args.date, report.now)
    /\ (report.func = "events_page_data" /\ report.raised = "none") =>
           LET window == get_date_range(strptime_datetime(report.date_str), report.period)
               kept == SelectSeq(OnlyOK(transactions), LAMBDA r :
                           Leq(window[1], r.date) /\ Leq(r.date, window[2]))
           IN  /\ report.ret.expenses.total_amount =
                      (0 - SumOf(SelectSeq(kept, LAMBDA r : r.amount < 0), "amount")) \div 100
               /\ report.ret.income.total_amount =
                      SumOf(SelectSeq(kept, LAMBDA r : r.amount > 0), "amount") \div 100
    /\ service.func = "investment_bank" =>
           service.ret = investment_bank(service.month, OnlyOK(data))
    /\ service.func = "analyze_cashback_categories" =>
           service.ret = analyze_cashback_categories(OnlyOK(data), service.year, service.month)

\* The card summary was computed over a table with a declined expense and a
\* successful expense of one card: only the successful one is in the total.
C19_Witness ==
    /\ report.func = "calculate_cards_data"
    /\ Len(transactions) = 2
    /\ transactions[1].status = "FAILED" /\ transactions[1].amount = -30000
    /\ transactions[2].status = "OK" /\ transactions[2].card = transactions[1].card
    /\ Len(report.ret) = 1
    /\ report.ret[1].total_spent = 0 - transactions[2].amount


(***************************************************************************)
(* The greeting (src/src/utils.py): get_greeting, called by the home page  *)
(* with datetime.now().hour.                                               *)
(***************************************************************************)
GoodMorning == "Dobroe utro"
GoodDay == "Dobryj den"
GoodEvening == "Dobryj vecher"
GoodNight == "Dobroj nochi"

\* The instants datetime.now() may give: every hour of a day, at several
\* minutes of the hour.
GreetingMinutes == {0, 15, 30, 45, 59}
GreetingNows ==
    { At(2020, 10, 15, h, mm, 0) : h \in 0..23, mm \in GreetingMinutes }

\* datetime.hour
hour_of(now) == now.second \div 3600

\* A slip: the evening band runs to midnight.
get_greeting_evening_to_midnight(hour) ==
    IF 6 <= hour /\ hour < 12 THEN GoodMorning
    ELSE IF 12 <= hour /\ hour < 18 THEN GoodDay
    ELSE IF 18 <= hour /\ hour < 24 THEN GoodEvening
    ELSE GoodNight

get_greeting(hour) ==
    IF 6 <= hour /\ hour < 12 THEN GoodMorning
    ELSE IF 12 <= hour /\ hour < 18 THEN GoodDay
    ELSE IF 18 <= hour /\ hour < 23 THEN GoodEvening
    ELSE GoodNight

InitGreeting ==
    /\ reference \in GreetingNows
    /\ service = NoService
    /\ windows = Idle
    /\ transactions = Idle /\ report = Idle /\ data = Idle
    /\ today = Idle /\ user_stocks = Idle /\ cache_file = Idle /\ stock_call = Idle
    /\ CliIdle

\* current_hour = datetime.now().hour; greeting = get_greeting(current_hour)
GetGreeting ==
    /\ service.func = "none"
    /\ service' = [func |-> "get_greeting", hour |-> hour_of(reference),
                   ret |-> get_greeting(hour_of(reference))]
    /\ UNCHANGED <<reference, windows, data, reportVars, stockVars, cliVars>>

NextGreeting == GetGreeting

SpecGreeting == InitGreeting /\ [][NextGreeting]_vars

(***************************************************************************)
(* Properties of the greeting.                                             *)
(***************************************************************************)
Greeted == service.func = "get_greeting"

\* The hours of the four bands.
MorningHours == 6..11
DayHours == 12..17
EveningHours == 18..22
NightHours == (0..5) \cup {23}

MaxPasses == 2

\* datetime.now() / datetime.today()
CliNow(seconds) == At(2020, 10, 15, 12, 0, seconds)

\* A row of an operations file.
CliRow(date, status, amount, category, description) ==
    [date |-> date, status |-> status, amount |-> amount, category |-> category,
     description |-> description, card |-> Card7197, cashback |-> 0, rounding |-> 1000]

\* The table of the default operations file (PATH_TO_OPERATIONS) and the
\* table of another file the user may name.
DefaultOperations ==
    << CliRow(At(2020, 10, 5, 12, 0, 0), "OK", -10000, Eda, PhoneHyphens),
       CliRow(At(2020, 10, 6, 9, 0, 0), "OK", -25000, Perevody, IvanI),
       CliRow(At(2020, 10, 7, 9, 0, 0), "OK", 50000, <<"D", "a">>, Eda) >>
OtherOperations ==
    << CliRow(At(2020, 10, 5, 12, 0, 0), "OK", -7000, NaN, NaN),
       CliRow(At(2020, 10, 8, 9, 0, 0), "FAILED", -3000, Eda, Eda) >>

\* transactions_df: None, or the DataFrame that was loaded.
NoDataFrame == [loaded |-> FALSE]
DataFrame(rows) == [loaded |-> TRUE, rows |-> rows]

\* load_transactions_interactive(): the DataFrame of the file the user
\* names, None when the file is not found or cannot be read.
load_transactions_interactive ==
    { NoDataFrame, DataFrame(DefaultOperations), DataFrame(OtherOperations) }

\* transactions_df.to_dict("records") if transactions_df is not None else []
\* : the dates of the records are Timestamps.
transactions_list(df) ==
    IF ~df.loaded THEN <<>>
    ELSE [k \in DOMAIN df.rows |-> [df.rows[k] EXCEPT !.date = Timestamp(@)]]

\* What the user types at the prompts.
CliDateTimes == { <<15, 10, 2020, 64800>>, <<31, 2, 2020, 0>> }
CliPeriods == {"M"}
CliQueries == { <<"e", "d">>, <<"y", "y">> }
CliMonths == { <<10, 2020>>, <<13, 2020>> }
NotAnInteger == <<"x">>
CliYearMonths == { <<2020, 10>>, NotAnInteger }
CliDates == { None, <<5, 10, 2020>> }
CliCategories == { Eda }

\* The result of an operation: the exception that left it ("none" when it
\* returned) and the value json.loads gives for the text it returned.
ReturnedValue(value) == [raised |-> "none", ret |-> value]
RaisedBy(exception) == [raised |-> exception, ret |-> <<>>]

\* main(date_str) of src/src/views.py at the instant `now`; `operations` is
\* the table of the default operations file, NoDataFrame when the file is
\* missing.  The set of <<result, get_stock_prices record, new content of
\* the cache file>> the call may end with.
main_view(date_str, now, operations, day, stocks, file, last_call, env) ==
    IF ~operations.loaded THEN { <<RaisedBy("FileNotFoundError"), last_call, file>> }
    ELSE IF ~strptime_datetime_ok(date_str)
    THEN { <<RaisedBy("ValueError"), last_call, file>> }
    ELSE LET filtered == filter_transactions_by_date_range(
                             operations.rows, strptime_datetime(date_str))
             stale == missing_or_broken(stocks, load_cache(file, day)[2])
             outcome(currency, write, responses) ==
                 LET rates == get_currency_rates(currency)
                     result == get_stock_prices(stocks, day, file, responses, write)
                 IN  IF rates[1] # "none" THEN <<RaisedBy(rates[1]), last_call, file>>
                     ELSE IF result[1].raised # "none"
                     THEN <<RaisedBy(result[1].raised), result[1], result[2]>>
                     ELSE << ReturnedValue([greeting |-> get_greeting(hour_of(now)),
                                        cards |-> calculate_cards_data(filtered),
                                        top_transactions |-> get_top_transactions(filtered, 5),
                                        currency_rates |-> rates[2],
                                        stock_prices |-> result[1].ret]),
                             result[1], result[2] >>
         IN  { outcome(currency, write, responses) :
                   currency \in env.currency,
                   write \in env.write,
                   responses \in [1..Len(stale) -> env.fetch] }

\* The answers of the services and the outcomes of the cache write a run
\* of the loop is followed for: the rates or a payload that is no object;
\* a price or a payload that is no object; a write that succeeds.
CliEnvironment ==
    [currency |-> {"rates", "payload_not_object"},
     fetch |-> { [kind |-> "price", price |-> 150], [kind |-> "payload_not_object"] },
     write |-> {"ok"}]

\* The content of result.json.
ResultFile(function_name, timestamp, result_data) ==
    [kind |-> "object", function |-> function_name, timestamp |-> timestamp,
     result |-> result_data]

\* The file is opened for appending: a record that is there stays.
save_result_to_file_appending(file, result_data, function_name, now, save) ==
    IF save = "ok"
    THEN IF file.kind = "object" THEN file
         ELSE [kind |-> "object", function |-> function_name, timestamp |-> now,
               result |-> result_data]
    ELSE IF save = "write_failed" THEN [kind |-> "not_json"]
    ELSE file

\* save_result_to_file(result_data, function_name): the new content of
\* result.json.  The file is opened for writing, which empties it, and the
\* output is dumped into it; when the open fails the file stays as it was,
\* when the dump fails the file is left with a part of the output.
save_result_to_file(file, result_data, function_name, now, save) ==
    IF save = "ok" THEN ResultFile(function_name, now, result_data)
    ELSE IF save = "write_failed" THEN NotJson
    ELSE file

\* One pass of the loop: the choice typed, how the pass ended, and the
\* transactions_list the pass computed (empty when it did not get there).
Pass(choice, outcome, list) ==
    [number |-> iteration.number + 1, choice |-> choice, outcome |-> outcome,
     list |-> list]

NoPass == [number |-> 0, choice |-> "none", outcome |-> "none", list |-> <<>>]

\* The directory reports/ after the wrapper of a report wrote its file.
reports_after(dir, file) == { f \in dir : f.path # file.path } \cup {file}

InitCli ==
    /\ transactions_df = NoDataFrame
    /\ result_file \in { Absent, ResultFile("investment_bank", 0, [total_savings |-> 0]) }
    /\ reports_dir = {}
    /\ iteration = NoPass
    /\ clock = 0
    /\ today = 1
    /\ user_stocks = <<"AAPL">>
    /\ cache_file \in { Absent, Cache(1, <<Entry("AAPL", 140)>>) }
    /\ stock_call = NoStockCall
    /\ reference = Idle /\ windows = Idle
    /\ transactions = Idle /\ report = Idle
    /\ data = Idle /\ service = Idle

\* The loop has not been left.
Running == iteration.outcome # "exit" /\ iteration.number < MaxPasses

\* The instants the clock may show when a pass gets to its operation.
Ticks == {clock, clock + 1}

\* The file is loaded by every pass of a choice that needs it.
LazyLoad_every_pass == load_transactions_interactive

\* Lines 83-87: the DataFrame after the lazy load of a choice that needs it.
LazyLoad ==
    IF transactions_df.loaded THEN {transactions_df} ELSE load_transactions_interactive

\* The load failed: "Пропуск операции", continue.
LoadFailed(choice) ==
    /\ iteration' = Pass(choice, "load_failed", <<>>)
    /\ UNCHANGED <<transactions_df, result_file, reports_dir, stockVars>>

\* The exception of the operation is saved to result.json as its result.
Finish_saving_the_error(choice, function_name, list, result, now) ==
    IF result.raised # "none"
    THEN /\ result_file' = [kind |-> "object", function |-> function_name,
                            timestamp |-> now, result |-> result.raised]
         /\ iteration' = Pass(choice, "raised", list)
    ELSE \E save \in WriteOutcomes :
            /\ result_file' = save_result_to_file(result_file, result.ret,
                                                  function_name, now, save)
            /\ iteration' = Pass(choice, IF save = "ok" THEN "saved" ELSE "save_failed",
                                 list)

\* The end of a branch of the try block: an exception of the operation is
\* caught and printed, a returned text is parsed and saved to result.json.
Finish(choice, function_name, list, result, now) ==
    IF result.raised # "none"
    THEN /\ result_file' = result_file
         /\ iteration' = Pass(choice, "raised", list)
    ELSE \E save \in WriteOutcomes :
            /\ result_file' = save_result_to_file(result_file, result.ret,
                                                  function_name, now, save)
            /\ iteration' = Pass(choice, IF save = "ok" THEN "saved" ELSE "save_failed",
                                 list)

\* choice == "0"
Choice0 ==
    /\ Running
    /\ iteration' = Pass("0", "exit", <<>>)
    /\ \E now \in Ticks : clock' = now
    /\ UNCHANGED <<transactions_df, result_file, reports_dir, stockVars,
                   dateVars, reportVars, serviceVars>>

\* A choice that is none of "0".."10".
ChoiceInvalid ==
    /\ Running
    /\ iteration' = Pass("11", "invalid", transactions_list(transactions_df))
    /\ \E now \in Ticks : clock' = now
    /\ UNCHANGED <<transactions_df, result_file, reports_dir, stockVars,
                   dateVars, reportVars, serviceVars>>

\* choice == "1": the home page, which loads the default operations file
\* itself.
Choice1 ==
    /\ Running
    /\ \E now \in Ticks, date_input \in CliDateTimes,
          operations \in {NoDataFrame, DataFrame(DefaultOperations)} :
          /\ clock' = now
          /\ \E outcome \in main_view(date_input, CliNow(now), operations, today,
                                      user_stocks, cache_file, stock_call,
                                      CliEnvironment) :
                 /\ stock_call' = outcome[2]
                 /\ cache_file' = outcome[3]
                 /\ Finish("1", "main", transactions_list(transactions_df),
                           outcome[1], now)
    /\ UNCHANGED <<transactions_df, reports_dir, today, user_stocks,
                   dateVars, reportVars, serviceVars>>

\* choice == "2": the events page.
Choice2 ==
    /\ Running
    /\ \E now \in Ticks, df \in LazyLoad :
          /\ clock' = now
          /\ IF ~df.loaded THEN LoadFailed("2")
             ELSE /\ transactions_df' = df
                  /\ \E date_input \in CliDateTimes, period_input \in CliPeriods :
                       \E outcome \in events_page_data(df.rows, date_input, period_input,
                                          today, user_stocks, cache_file, stock_call,
                                          CliEnvironment) :
                           /\ stock_call' = outcome[2]
                           /\ cache_file' = outcome[3]
                           /\ Finish("2", "events_page_data", transactions_list(df),
                                     [raised |-> outcome[1].raised, ret |-> outcome[1].ret],
                                     now)
                  /\ UNCHANGED <<reports_dir, today, user_stocks>>
    /\ UNCHANGED <<dateVars, reportVars, serviceVars>>

\* A choice whose operation takes the list of records.
ListChoice(choice, function_name, result(_)) ==
    /\ \E now \in Ticks :
          /\ clock' = now
          /\ Finish(choice, function_name, transactions_list(transactions_df),
                    result(transactions_list(transactions_df)), now)
    /\ UNCHANGED <<transactions_df, reports_dir, stockVars,
                   dateVars, reportVars, serviceVars>>

\* choice == "3": simple search.
Choice3 ==
    /\ Running
    /\ \E query_input \in CliQueries :
           ListChoice("3", "simple_search",
                      LAMBDA list : simple_search(query_input, list))

\* choice == "4": transfers to individuals.
Choice4 ==
    /\ Running
    /\ ListChoice("4", "search_transfers_to_individuals",
               LAMBDA list : search_transfers_to_individuals(list))

\* choice == "5": phone numbers.
Choice5 ==
    /\ Running
    /\ ListChoice("5", "search_transactions_by_phone_numbers",
               LAMBDA list : search_transactions_by_phone_numbers(list))

\* choice == "6": the investment bank.
Choice6 ==
    /\ Running
    /\ \E month_input \in CliMonths :
        ListChoice("6", "investment_bank",
                   LAMBDA list :
                       IF ~strptime_month_ok(month_input) THEN RaisedBy("ValueError")
                       ELSE ReturnedValue(investment_bank(month_input, list)))

\* choice == "7": the cashback analysis; int() of an input that is no
\* number raises ValueError.
Choice7 ==
    /\ Running
    /\ \E input \in CliYearMonths :
        ListChoice("7", "analyze_cashback_categories",
                   LAMBDA list :
                       IF input = NotAnInteger THEN RaisedBy("ValueError")
                       ELSE ReturnedValue(
                                analyze_cashback_categories(list, input[1], input[2])))

\* A choice whose operation is a report over the DataFrame: the wrapper
\* writes its file into reports/ before the result is saved.
ReportChoice(choice, function_name, args, result_json(_, _)) ==
    /\ \E now \in Ticks, df \in LazyLoad :
          /\ clock' = now
          /\ IF ~df.loaded THEN LoadFailed(choice)
             ELSE LET written == report_to_file(function_name, args, CliNow(now),
                                                result_json(df.rows, CliNow(now)))
                  IN  /\ transactions_df' = df
                      /\ reports_dir' = reports_after(reports_dir, written.file)
                      /\ Finish(choice, function_name, transactions_list(df),
                                ReturnedValue(written.ret), now)
                      /\ UNCHANGED stockVars
    /\ UNCHANGED <<dateVars, reportVars, serviceVars>>

\* choice == "8": spending by category.
Choice8 ==
    /\ Running
    /\ \E category_input \in CliCategories, date_input \in CliDates :
        ReportChoice("8", "spending_by_category",
                     [category |-> category_input, date |-> date_input],
                     LAMBDA rows, now :
                         spending_by_category(rows, category_input, date_input, now))

\* choice == "9": spending by weekday.
Choice9 ==
    /\ Running
    /\ \E date_input \in CliDates :
        ReportChoice("9", "spending_by_weekday", [date |-> date_input],
                     LAMBDA rows, now : spending_by_weekday(rows, date_input, now))

\* choice == "10": spending by workday.
Choice10 ==
    /\ Running
    /\ \E date_input \in CliDates :
        ReportChoice("10", "spending_by_workday", [date |-> date_input],
                     LAMBDA rows, now : spending_by_workday(rows, date_input, now))

NextCli ==
    \/ Choice0
    \/ ChoiceInvalid
    \/ Choice1
    \/ Choice2
    \/ Choice3
    \/ Choice4
    \/ Choice5
    \/ Choice6
    \/ Choice7
    \/ Choice8
    \/ Choice9
    \/ Choice10

SpecCli == InitCli /\ [][NextCli]_vars

(***************************************************************************)
(* Properties of the menu loop.                                            *)
(***************************************************************************)
\* The function name a choice saves its result under.
SavedAs ==
    [choice \in {"1", "2", "3", "4", "5", "6", "7", "8", "9", "10"} |->
        CASE choice = "1" -> "main"
          [] choice = "2" -> "events_page_data"
          [] choice = "3" -> "simple_search"
          [] choice = "4" -> "search_transfers_to_individuals"
          [] choice = "5" -> "search_transactions_by_phone_numbers"
          [] choice = "6" -> "investment_bank"
          [] choice = "7" -> "analyze_cashback_categories"
          [] choice = "8" -> "spending_by_category"
          [] choice = "9" -> "spending_by_weekday"
          [] choice = "10" -> "spending_by_workday"]

ReportChoices == {"8", "9", "10"}
ListChoices == {"3", "4", "5", "6", "7"}

\* result.json holds the record of the pass that just ended.
HoldsRecordOfPass(file, pass, now) ==
    /\ file.kind = "object"
    /\ file.function = SavedAs[pass.choice]
    /\ file.timestamp = now

\* C21: across any sequence of CLI actions the only data files created or
\* modified are result.json and stock_cache.json, so no report call leaves
\* another data file behind, and after an action whose result was saved
\* result.json holds the record of that action only.
C21_OnlyResultAndCacheFiles ==
    /\ reports_dir = {}
    /\ iteration.outcome = "saved" => HoldsRecordOfPass(result_file, iteration, clock)

\* The report file a pass of choice 8, 9 or 10 wrote.
ReportFileOf(pass, now, dir) ==
    { f \in dir : f.path = <<"reports", SavedAs[pass.choice], CliNow(now)>> }

\* C21 (amended): the data files a pass creates or modifies are result.json,
\* stock_cache.json (choices 1 and 2 only) and, for a report of choice 8, 9
\* or 10 that ran, the one file reports/<function>_<time of the call> with
\* the text the report returned; that file replaces a file of the same path
\* and every other file of reports/ stays.  After a pass whose result was
\* saved result.json is the record {function, timestamp, result} of that
\* pass and nothing else; a pass that did not get to the save leaves
\* result.json as it was.
C21_DurableFiles ==
    [][ LET pass == iteration'
            written == ReportFileOf(pass, clock', reports_dir')
        IN  /\ IF pass.choice \in ReportChoices /\ pass.outcome # "load_failed"
               THEN /\ Cardinality(written) = 1
                    /\ \A f \in written :
                          reports_dir' = { g \in reports_dir : g.path # f.path } \cup {f}
               ELSE reports_dir' = reports_dir
            /\ cache_file' # cache_file => pass.choice \in {"1", "2"}
            /\ pass.outcome = "saved" =>
                  /\ HoldsRecordOfPass(result_file', pass, clock')
                  /\ DOMAIN result_file' = {"kind", "function", "timestamp", "result"}
            /\ pass.outcome \notin {"saved", "save_failed"} => result_file' = result_file
      ]_vars

\* Two reports left their files in reports/, and result.json, which held the
\* record of the first, holds the record of the second.
C21_Witness ==
    /\ Cardinality(reports_dir) = 2
    /\ iteration.number = 2
    /\ iteration.outcome = "saved"
    /\ result_file.kind = "object"
    /\ result_file.function = "spending_by_weekday"
    /\ \E f \in reports_dir : f.path[2] = "spending_by_category"

\* The choices that load the table, and the result an operation over an
\* empty list returns: [] for the searches, {"total_savings": 0.0} for the
\* investment bank, {} for the cashback analysis.
LoadingChoices == {"2", "8", "9", "10"}
EmptyResult ==
    [choice \in ListChoices |->
        IF choice = "6" THEN [total_savings |-> 0] ELSE <<>>]

\* The table is assigned only by a pass of choice 2, 8, 9 or 10 that found
\* it not loaded, and a loaded table is kept.
LoadedLazilyAndReused(pass) ==
    /\ transactions_df' # transactions_df =>
          /\ pass.choice \in LoadingChoices
          /\ ~transactions_df.loaded
          /\ transactions_df'.loaded
    /\ transactions_df.loaded => transactions_df' = transactions_df

\* The list of the pass is the loaded table, record by record.
RunsOverLoadedRecords(pass) ==
    /\ Len(pass.list) = Len(transactions_df.rows)
    /\ \A k \in DOMAIN pass.list :
          /\ IsTimestamp(pass.list[k].date)
          /\ [pass.list[k] EXCEPT !.date = @[2]] = transactions_df.rows[k]

FailedOutcomes == {"invalid", "load_failed", "raised"}

\* C30: over the runs in which every prompt is answered, main_loop ends only
\* on the choice "0" and nothing follows it; a pass that ends with an
\* invalid choice, a failed load or an exception of the selected operation
\* does not end the loop, leaves result.json as it was and keeps the table:
\* a loaded table is unchanged, an invalid choice or a failed load leaves it
\* not loaded (a pass that loaded the table before its operation raised
\* keeps the table it loaded), and the menu is presented again.
C30_OnlyChoice0EndsTheLoop ==
    [][ LET pass == iteration'
        IN  /\ iteration.outcome # "exit"
            /\ pass.outcome = "exit" <=> pass.choice = "0"
            /\ pass.outcome \in FailedOutcomes =>
                  /\ result_file' = result_file
                  /\ transactions_df.loaded => transactions_df' = transactions_df
                  /\ pass.outcome # "raised" => transactions_df' = transactions_df
                  /\ pass.number < MaxPasses => Running'
      ]_vars

\* Choice 8 loaded the table and saved its record; the simple search chosen
\* next raised, and both the table and the record are still there.
C30_Witness ==
    /\ iteration.number = 2
    /\ iteration.choice = "3"
    /\ iteration.outcome = "raised"
    /\ transactions_df = DataFrame(DefaultOperations)
    /\ result_file.kind = "object"
    /\ result_file.function = "spending_by_category"
====
